---------------------------- MODULE Spec2Model ----------------------------
(***************************************************************************)
(* A model of the collection transformation engine of PostmanManager:     *)
(*   - merge_collection_items        (Backend/app/api/v1/collections.py)  *)
(*   - generate_filtered_collection  (Backend/app/api/v1/collections.py)  *)
(*   - extract_flat_attributes       (Backend/app/api/v1/collections.py)  *)
(*   - extract_nested_string_fields, set_nested_value and the XSS variant *)
(*     loop of convert_swagger_to_postman (Backend/app/api/v1/            *)
(*     conversions.py)                                                    *)
(*                                                                         *)
(* Python strings are modelled as sequences of tokens, so that substring  *)
(* tests, lower-casing, concatenation, split('.') and replace are         *)
(* computed, not assumed.  Python dicts are sequences of key/value pairs  *)
(* in insertion order.                                                     *)
(***************************************************************************)
EXTENDS Integers, Sequences, FiniteSets, TLC

VARIABLES
    \* ---- merge_collection_items ----
    original_items,     \* the argument original_items (an item tree)
    updated_items,      \* the argument updated_items (an item tree)
    merged_result,      \* value returned by merge_collection_items(O, U)
    remerged_result,    \* value returned by merge_collection_items(merged_result, U)
    original_items_after, \* the list original_items as it is after the first call
    mpc,                \* "start" | "merged" | "remerged"
    \* ---- convert_swagger_to_postman: the XSS variants of one request ----
    include_xss,        \* request.include_xss
    body_data,          \* json.loads(body["raw"]) of the request being converted
    string_fields,      \* extract_nested_string_fields(body_data)
    xss_folder,         \* "item" of the folder "XSS-Injections" (one variant per field)
    ipc,                \* "start" | "done"
    \* ---- extract_flat_attributes ----
    response_body,      \* the argument data
    flat_attributes,    \* the returned dict, as key/value pairs in insertion order
    fpc,                \* "start" | "done"
    \* ---- generate_filtered_collection ----
    source_collection,  \* the stored collection file
    last_call,          \* the most recent call: its request, its status and its locals
    last_saved,         \* per request name, the most recent call that saved the collection
    ok_log,             \* request_name of every call that saved the collection, in order
    ncalls,             \* number of calls made
    \* ---- one call of a function without side effects ----
    args,               \* the arguments of the call
    ret,                \* what the call returned or raised
    cpc,                \* "start" | "done"
    \* ---- the collections directory and the server processes over it ----
    collections_dir,    \* collection id -> the document of its collection file
    server_processes,   \* the server processes that serve requests
    handling,           \* per process, the handlers that have yet to write
    completed,          \* the requests that wrote a collection file, in order
    last_response,      \* the most recent response
    nrequests,          \* number of requests received
    \* ---- one PostmanCollectionBuilder ----
    collection_variable, \* self.collection["variable"]
    variable_calls,     \* the add_variable / set_base_url calls made, in order
    \* ---- conversions.py: the conversion records of one server process ----
    conversion_store,   \* conversion_id -> the record stored under it
    convert_calls,      \* the calls of convert_swagger_to_postman, in order of arrival
    collection_files,   \* the swagger_file_id whose collection file has been written
    now,                \* int(datetime.now().timestamp())
    \* ---- filtering_conditions.py: the master data file ----
    master_data_file,   \* "conditions" of filtering_conditions.json
    condition_calls     \* number of endpoint calls that saved the file

mergeVars == <<original_items, updated_items, merged_result, remerged_result,
               original_items_after, mpc>>
injectVars == <<include_xss, body_data, string_fields, xss_folder, ipc>>
flatVars == <<response_body, flat_attributes, fpc>>
filterVars == <<source_collection, last_call, last_saved, ok_log, ncalls>>

callVars == <<args, ret, cpc>>
storeVars == <<collections_dir, server_processes, handling, completed, last_response, nrequests>>
builderVars == <<collection_variable, variable_calls>>
conversionVars == <<conversion_store, convert_calls, collection_files, now>>
conditionVars == <<master_data_file, condition_calls>>
serviceVars == <<conversionVars, conditionVars>>

earlyVars == <<mergeVars, injectVars, flatVars, filterVars>>
restVars == <<storeVars, builderVars, serviceVars>>
laterVars == <<callVars, restVars>>

vars == <<earlyVars, laterVars>>

(***************************************************************************)
(* Bounds of the model.                                                    *)
(***************************************************************************)
MaxRoot == 2        \* longest root item list of O and of U
MaxList == 2        \* longest JSON array of a request or response body
MaxCalls == 2       \* number of generate-filtered calls

(***************************************************************************)
(* Strings as token sequences.                                             *)
(***************************************************************************)
\* str.lower(), token by token
Lower(tok) ==
    CASE tok = "Injection" -> "injection"
      [] tok = "(Copy)"    -> "(copy)"
      [] tok = "Filtering" -> "filtering"
      [] tok = "Get"       -> "get"
      [] tok = "F"         -> "f"
      [] tok = "G"         -> "g"
      [] tok = "H"         -> "h"
      [] tok = "XSS-"      -> "xss-"
      [] tok = "A"         -> "a"
      [] tok = "B"         -> "b"
      [] tok = "C"         -> "c"
      [] tok = "T"         -> "t"
      [] tok = "N"         -> "n"
      [] OTHER             -> tok

\* str.upper() of a method
Upper(m) ==
    CASE m = "get" -> "GET"
      [] m = "put" -> "PUT"
      [] OTHER     -> m

\* `sub in name.lower()` for a one-token needle
ContainsLower(name, sub) == \E i \in DOMAIN name : Lower(name[i]) = sub

SeqUpTo(S, n) == UNION {[1..k -> S] : k \in 0..n}

(***************************************************************************)
(* Postman items.  Every item is a record                                  *)
(*   kind   "folder" (has an "item" list), "request" (has "request" and   *)
(*          no "item" list) or "other" (neither)                           *)
(*   name   the "name" field                                               *)
(*   method request.method ("" when there is no request object)           *)
(*   item   the children of a folder (<<>> otherwise)                      *)
(*   ver    stands for every other field of the item (url, body, header,  *)
(*          newField, ...): items with different ver differ in content    *)
(*   pfn    the "parentFolderName" field (<<>> when absent or empty)      *)
(*   trk    TRUE when the item carries the other internal tracking fields *)
(*          (id, path, originalIndex, parentPath, folderReference)        *)
(***************************************************************************)
Req(n, m, v, p, t) ==
    [name |-> n, kind |-> "request", method |-> m, item |-> <<>>,
     ver |-> v, pfn |-> p, trk |-> t]

Folder(n, kids, v) ==
    [name |-> n, kind |-> "folder", method |-> "", item |-> kids,
     ver |-> v, pfn |-> <<>>, trk |-> FALSE]

Other(n, v) ==
    [name |-> n, kind |-> "other", method |-> "", item |-> <<>>,
     ver |-> v, pfn |-> <<>>, trk |-> FALSE]

nGet     == <<"Get">>
nGetInj  == <<"Get", " ", "XSS-", "Injection", " ", "name">>
nGetCopy == <<"Get", " ", "(Copy)">>
nF       == <<"F">>
nG       == <<"G">>
nH       == <<"H">>
nInjF    == <<"XSS-", "Injection", "s">>

(***************************************************************************)
(* merge_collection_items and its nested helpers.                          *)
(***************************************************************************)
is_injection_request(item) == ContainsLower(item.name, "injection")

is_clone(item) == ContainsLower(item.name, "(copy)")

\* find_matching_item that compares the names only
RECURSIVE find_matching_item_by_name(_, _)
find_matching_item_by_name(original_item, updated) ==
    IF updated = <<>> THEN <<>>
    ELSE LET u == Head(updated) IN
         IF /\ ~is_injection_request(u)
            /\ ~is_clone(u)
            /\ original_item.name = u.name
         THEN <<u>>
         ELSE find_matching_item_by_name(original_item, Tail(updated))

\* first item of updated with the same (name, method) that is neither
\* injection-tagged nor a clone: <<item>>, or <<>> for None
RECURSIVE find_matching_item(_, _)
find_matching_item(original_item, updated) ==
    IF updated = <<>> THEN <<>>
    ELSE LET u == Head(updated) IN
         IF /\ ~is_injection_request(u)
            /\ ~is_clone(u)
            /\ original_item.name = u.name
            /\ original_item.method = u.method
         THEN <<u>>
         ELSE find_matching_item(original_item, Tail(updated))

\* flatten_items that does not descend into folders
flatten_items_top_level(items) ==
    SelectSeq(items, LAMBDA it : it.kind # "folder")

RECURSIVE flatten_items(_)
flatten_items(items) ==
    IF items = <<>> THEN <<>>
    ELSE LET it == Head(items) IN
         (IF it.kind = "folder" THEN flatten_items(it.item) ELSE <<it>>)
            \o flatten_items(Tail(items))

is_injection_folder(item) ==
    /\ item.kind = "folder"
    /\ ContainsLower(item.name, "injection")

\* merge_recursive without the final "keep the original" branch: a request
\* that has no match in the updated tree is dropped
RECURSIVE merge_recursive_dropping(_, _)
merge_recursive_dropping(original, all_updated_items) ==
    IF original = <<>> THEN <<>>
    ELSE LET orig_item == Head(original)
             rest == merge_recursive_dropping(Tail(original), all_updated_items)
         IN
         IF orig_item.kind = "folder" THEN
              IF is_injection_folder(orig_item)
              THEN <<orig_item>> \o rest
              ELSE <<[orig_item EXCEPT
                        !.item = merge_recursive_dropping(orig_item.item, all_updated_items)]>>
                   \o rest
         ELSE IF orig_item.kind = "request" THEN
              IF is_injection_request(orig_item)
              THEN <<orig_item>> \o rest
              ELSE find_matching_item(orig_item, all_updated_items) \o rest
         ELSE <<orig_item>> \o rest

RECURSIVE merge_recursive(_, _)
merge_recursive(original, all_updated_items) ==
    IF original = <<>> THEN <<>>
    ELSE LET orig_item == Head(original)
             rest == merge_recursive(Tail(original), all_updated_items)
         IN
         IF orig_item.kind = "folder" THEN
              IF is_injection_folder(orig_item)
              THEN <<orig_item>> \o rest
              ELSE <<[orig_item EXCEPT
                        !.item = merge_recursive(orig_item.item, all_updated_items)]>>
                   \o rest
         ELSE IF orig_item.kind = "request" THEN
              IF is_injection_request(orig_item)
              THEN <<orig_item>> \o rest
              ELSE LET matched == find_matching_item(orig_item, all_updated_items) IN
                   IF matched # <<>> THEN matched \o rest
                   ELSE <<orig_item>> \o rest
         ELSE <<orig_item>> \o rest

\* The path (indices from the root list) of the first folder, in depth-first
\* order, whose name is folder_name; <<>> for None.
RECURSIVE find_folder_path(_, _, _)
find_folder_path(items, folder_name, i) ==
    IF i > Len(items) THEN <<>>
    ELSE LET it == items[i] IN
         IF it.kind = "folder" THEN
              IF it.name = folder_name THEN <<i>>
              ELSE LET found == find_folder_path(it.item, folder_name, 1) IN
                   IF found # <<>> THEN <<i>> \o found
                   ELSE find_folder_path(items, folder_name, i + 1)
         ELSE find_folder_path(items, folder_name, i + 1)

find_folder_by_name(items, folder_name) == find_folder_path(items, folder_name, 1)

RECURSIVE ItemAt(_, _)
ItemAt(items, path) ==
    IF Len(path) = 1 THEN items[path[1]]
    ELSE ItemAt(items[path[1]].item, Tail(path))

\* folder["item"].append(c) for the folder at path
RECURSIVE AppendAt(_, _, _)
AppendAt(items, path, c) ==
    IF path = <<>> THEN Append(items, c)
    ELSE LET folder == items[path[1]] IN
         [items EXCEPT ![path[1]] =
            [folder EXCEPT !.item = AppendAt(folder.item, Tail(path), c)]]

\* removes id, path, originalIndex, parentPath, parentFolderName, folderReference
clean_item(item) == [item EXCEPT !.pfn = <<>>, !.trk = FALSE]

\* existing_item.get("request", {}).get("method"): None without a request object
ExistingMethod(e) == IF e.kind = "request" THEN e.method ELSE "None"

\* place_clone without the parent-folder lookup: every clone goes to the root
place_clone_at_root(item, target_structure) ==
    Append(target_structure, clean_item(item))

place_clone(item, target_structure) ==
    IF item.pfn # <<>> THEN
         LET path == find_folder_by_name(target_structure, item.pfn) IN
         IF path # <<>> THEN
              LET folder == ItemAt(target_structure, path)
                  clone_exists ==
                      \E k \in DOMAIN folder.item :
                          /\ folder.item[k].name = item.name
                          /\ ExistingMethod(folder.item[k]) = item.method
              IN IF ~clone_exists
                 THEN AppendAt(target_structure, path, clean_item(item))
                 ELSE target_structure
         ELSE Append(target_structure, clean_item(item))
    ELSE Append(target_structure, clean_item(item))

RECURSIVE extract_and_place_clones(_, _)
extract_and_place_clones(items, target_structure) ==
    IF items = <<>> THEN target_structure
    ELSE LET it == Head(items)
             after ==
                 IF it.kind = "folder"
                 THEN extract_and_place_clones(it.item, target_structure)
                 ELSE IF it.kind = "request" /\ is_clone(it)
                      THEN place_clone(it, target_structure)
                      ELSE target_structure
         IN extract_and_place_clones(Tail(items), after)

merge_collection_items(original, updated) ==
    extract_and_place_clones(updated,
        merge_recursive(original, flatten_items(updated)))

\* the folder at path of the result, or a folder above it, is an injection
\* folder: merge_recursive put the folder of original itself into the result
\* (result.append(orig_item)), so the folder at path is an object of original
SharedWithOriginal(target_structure, path) ==
    \E k \in 1..Len(path) :
        is_injection_folder(ItemAt(target_structure, SubSeq(path, 1, k)))

\* original after place_clone: folder["item"].append(clean_clone) on a folder
\* that is an object of original appends to original as well
original_after_place_clone(item, target_structure, original) ==
    LET path == find_folder_by_name(target_structure, item.pfn) IN
    IF /\ item.pfn # <<>>
       /\ path # <<>>
       /\ place_clone(item, target_structure) # target_structure
       /\ SharedWithOriginal(target_structure, path)
    THEN AppendAt(original, path, clean_item(item))
    ELSE original

\* the result and original after extract_and_place_clones over items
RECURSIVE place_clones_in_both(_, _)
place_clones_in_both(items, both) ==
    IF items = <<>> THEN both
    ELSE LET it == Head(items)
             after ==
                 IF it.kind = "folder"
                 THEN place_clones_in_both(it.item, both)
                 ELSE IF it.kind = "request" /\ is_clone(it)
                      THEN [target |-> place_clone(it, both.target),
                            original |-> original_after_place_clone(it, both.target,
                                                                    both.original)]
                      ELSE both
         IN place_clones_in_both(Tail(items), after)

\* the list passed as original_items, as it is when merge_collection_items
\* has returned
original_after_merge(original, updated) ==
    place_clones_in_both(updated,
        [target |-> merge_recursive(original, flatten_items(updated)),
         original |-> original]).original

(***************************************************************************)
(* JSON values.  Every value is a record                                   *)
(*   t   "str" | "int" | "float" | "bool" | "null" | "dict" | "list"       *)
(*       ("none" stands for a request without body)                        *)
(*   s   the text of a scalar, as a token sequence                         *)
(*   kv  the members of a dict: key/value pairs in insertion order         *)
(*   el  the elements of a list                                            *)
(***************************************************************************)
JStr(s)   == [t |-> "str",  s |-> s,    kv |-> <<>>, el |-> <<>>]
JInt(s)   == [t |-> "int",  s |-> s,    kv |-> <<>>, el |-> <<>>]
JBool(s)  == [t |-> "bool", s |-> s,    kv |-> <<>>, el |-> <<>>]
JNull     == [t |-> "null", s |-> <<>>, kv |-> <<>>, el |-> <<>>]
JDict(kv) == [t |-> "dict", s |-> <<>>, kv |-> kv,   el |-> <<>>]
JList(el) == [t |-> "list", s |-> <<>>, kv |-> <<>>, el |-> el]
NoBody    == [t |-> "none", s |-> <<>>, kv |-> <<>>, el |-> <<>>]

Pair(k, v) == [k |-> k, v |-> v]

\* key in d
Has(d, k) == \E i \in DOMAIN d.kv : d.kv[i].k = k

\* d[key]
Get(d, k) == d.kv[CHOOSE i \in DOMAIN d.kv : d.kv[i].k = k].v

\* d[key] = v : an existing key keeps its place, a new key goes last
Put(d, k, v) ==
    IF Has(d, k)
    THEN LET i == CHOOSE j \in DOMAIN d.kv : d.kv[j].k = k
         IN [d EXCEPT !.kv = [d.kv EXCEPT ![i] = Pair(k, v)]]
    ELSE [d EXCEPT !.kv = Append(d.kv, Pair(k, v))]

\* f"{prefix}.{key}" if prefix else key
JoinPath(prefix, key) ==
    IF prefix # <<>> THEN prefix \o <<".">> \o key ELSE key

\* path.split('.')
RECURSIVE SplitDot(_)
SplitDot(str) ==
    IF \A i \in DOMAIN str : str[i] # "."
    THEN <<str>>
    ELSE LET i == CHOOSE j \in DOMAIN str :
                     str[j] = "." /\ \A k \in 1..(j - 1) : str[k] # "."
         IN <<SubSeq(str, 1, i - 1)>> \o SplitDot(SubSeq(str, i + 1, Len(str)))

\* str.replace(from, to) for one-token from
ReplaceTok(str, from, to) ==
    [i \in DOMAIN str |-> IF str[i] = from THEN to ELSE str[i]]

(***************************************************************************)
(* SecurityTestService and the field extraction of conversions.py.         *)
(***************************************************************************)
XSS_PAYLOAD_0 == JStr(<<"<script>alert('XSS')</script>">>)

is_string_field(value) == value.t = "str"

DefaultMaxDepth == 10

\* extract_nested_string_fields that treats every scalar as a string field
RECURSIVE ensf_any_scalar(_, _)
ensf_any_scalar(kv, prefix) ==
    IF kv = <<>> THEN <<>>
    ELSE LET full_path == JoinPath(prefix, Head(kv).k)
             value == Head(kv).v
         IN (IF value.t = "dict" THEN ensf_any_scalar(value.kv, full_path)
             ELSE IF value.t = "list" THEN
                     (IF value.el # <<>> /\ value.el[1].t = "dict"
                      THEN ensf_any_scalar(value.el[1].kv, full_path)
                      ELSE IF value.el # <<>> THEN <<full_path>> ELSE <<>>)
             ELSE <<full_path>>)
            \o ensf_any_scalar(Tail(kv), prefix)

extract_all_scalar_fields(data, prefix, max_depth, current_depth) ==
    IF data.t = "dict" THEN ensf_any_scalar(data.kv, prefix) ELSE <<>>

RECURSIVE extract_nested_string_fields(_, _, _, _)
RECURSIVE extract_fields_of_items(_, _, _, _)
extract_nested_string_fields(data, prefix, max_depth, current_depth) ==
    IF current_depth >= max_depth THEN <<>>
    ELSE IF data.t = "dict"
         THEN extract_fields_of_items(data.kv, prefix, max_depth, current_depth)
    ELSE IF data.t = "list" /\ Len(data.el) > 0 THEN
         IF data.el[1].t = "dict"
         THEN extract_nested_string_fields(data.el[1], prefix, max_depth, current_depth)
         ELSE IF is_string_field(data.el[1]) /\ prefix # <<>>
              THEN <<prefix>>
              ELSE <<>>
    ELSE <<>>

\* the loop `for key, value in data.items()` of extract_nested_string_fields
extract_fields_of_items(kv, prefix, max_depth, current_depth) ==
    IF kv = <<>> THEN <<>>
    ELSE LET full_path == JoinPath(prefix, Head(kv).k)
             value == Head(kv).v
             here ==
                 IF value.t = "dict"
                 THEN extract_nested_string_fields(value, full_path, max_depth,
                                                   current_depth + 1)
                 ELSE IF value.t = "list" /\ Len(value.el) > 0 THEN
                      IF value.el[1].t = "dict"
                      THEN extract_nested_string_fields(value.el[1], full_path,
                                                        max_depth, current_depth + 1)
                      ELSE IF is_string_field(value.el[1])
                           THEN <<full_path>>
                           ELSE <<>>
                 ELSE IF is_string_field(value) THEN <<full_path>>
                 ELSE <<>>
         IN here \o extract_fields_of_items(Tail(kv), prefix, max_depth, current_depth)

\* the navigation and final assignment of set_nested_value
RECURSIVE set_parts(_, _, _)
set_parts(current, parts, value) ==
    IF Len(parts) = 1 THEN Put(current, parts[1], value)
    ELSE LET part == parts[1]
             child == IF Has(current, part) /\ Get(current, part).t = "dict"
                      THEN Get(current, part)
                      ELSE JDict(<<>>)
         IN Put(current, part, set_parts(child, Tail(parts), value))

set_nested_value(data, path, value) ==
    IF path = <<>> \/ data.t # "dict" THEN data
    ELSE set_parts(data, SplitDot(path), value)

\* one variant request of the XSS-Injections folder: its name and its body
variant_request(request_name, body, field_path) ==
    [name |-> request_name \o <<" ", "XSS-", "Injection", " ">>
                  \o ReplaceTok(field_path, ".", "-"),
     body |-> set_nested_value(body, field_path, XSS_PAYLOAD_0)]

(***************************************************************************)
(* extract_flat_attributes of collections.py.                              *)
(***************************************************************************)
Attr(value, type, path) == [value |-> value, type |-> type, path |-> path]

\* attributes.update(nested)
RECURSIVE DictUpdate(_, _)
DictUpdate(attributes, nested) ==
    IF nested = <<>> THEN attributes
    ELSE DictUpdate(Put(JDict(attributes), Head(nested).k, Head(nested).v).kv,
                    Tail(nested))

leaf_type(value) ==
    IF value.t = "bool" THEN "boolean"
    ELSE IF value.t \in {"int", "float"} THEN "number"
    ELSE "string"

\* the array-of-primitives branch typed by the runtime tag of its first element
array_entry_typed(data, prefix) ==
    Attr(data.el[1], leaf_type(data.el[1]), prefix)

\* the array-of-primitives branch: the type is always "string"
array_entry(data, prefix) ==
    Attr(data.el[1], "string", prefix)

RECURSIVE extract_flat_attributes(_, _)
RECURSIVE extract_flat_of_items(_, _, _)
extract_flat_attributes(data, prefix) ==
    IF data.t = "dict" THEN extract_flat_of_items(data.kv, prefix, <<>>)
    ELSE IF data.t = "list" /\ Len(data.el) > 0 THEN
         IF data.el[1].t = "dict"
         THEN extract_flat_attributes(data.el[1], prefix)
         ELSE IF prefix # <<>>
              THEN <<Pair(prefix, array_entry(data, prefix))>>
              ELSE <<>>
    ELSE <<>>

\* the loop `for key, value in data.items()` of extract_flat_attributes
extract_flat_of_items(kv, prefix, attributes) ==
    IF kv = <<>> THEN attributes
    ELSE LET full_key == JoinPath(prefix, Head(kv).k)
             value == Head(kv).v
             next ==
                 IF value.t \in {"dict", "list"}
                 THEN DictUpdate(attributes, extract_flat_attributes(value, full_key))
                 ELSE Put(JDict(attributes), full_key,
                          Attr(value, leaf_type(value), full_key)).kv
         IN extract_flat_of_items(Tail(kv), prefix, next)

(***************************************************************************)
(* Each specification below runs one part of the program; the variables   *)
(* of the other parts stay at these values.                                *)
(***************************************************************************)
MergeIdle ==
    /\ original_items = <<>>
    /\ updated_items = <<>>
    /\ merged_result = <<>>
    /\ remerged_result = <<>>
    /\ original_items_after = <<>>
    /\ mpc = "idle"

InjectIdle ==
    /\ include_xss = FALSE
    /\ body_data = NoBody
    /\ string_fields = <<>>
    /\ xss_folder = [present |-> FALSE, item |-> <<>>]
    /\ ipc = "idle"

FlatIdle ==
    /\ response_body = JDict(<<>>)
    /\ flat_attributes = <<>>
    /\ fpc = "idle"

NoCall ==
    [status |-> 0, request_name |-> <<>>, request_method |-> "",
     folder_index |-> 0, generated_requests |-> <<>>]

\* per request name, the most recent call that saved the collection
NoneSaved ==
    [n \in {<<"Get">>, <<"Put">>} |->
        [valid |-> FALSE, request_method |-> "", generated_requests |-> <<>>]]

FilterIdle ==
    /\ source_collection = [present |-> FALSE, item |-> <<>>,
                            info_postman_id |-> FALSE, variable |-> "absent"]
    /\ last_call = NoCall
    /\ last_saved = NoneSaved
    /\ ok_log = <<>>
    /\ ncalls = MaxCalls

NoValue == [none |-> TRUE]

CallIdle ==
    /\ args = NoValue
    /\ ret = NoValue
    /\ cpc = "idle"

NoResponse == [status |-> 0]

StoreIdle ==
    /\ collections_dir = <<>>
    /\ server_processes = {}
    /\ handling = <<>>
    /\ completed = <<>>
    /\ last_response = NoResponse
    /\ nrequests = 0

BuilderIdle ==
    /\ collection_variable = <<>>
    /\ variable_calls = <<>>

ConversionIdle ==
    /\ conversion_store = <<>>
    /\ convert_calls = <<>>
    /\ collection_files = {}
    /\ now = 0

ConditionIdle ==
    /\ master_data_file = <<>>
    /\ condition_calls = 0

ServiceIdle == ConversionIdle /\ ConditionIdle
EarlyIdle == MergeIdle /\ InjectIdle /\ FlatIdle /\ FilterIdle
RestIdle == StoreIdle /\ BuilderIdle /\ ServiceIdle
LaterIdle == CallIdle /\ RestIdle

(***************************************************************************)
(* Inputs of the merge: item trees O (original) and U (updated).           *)
(***************************************************************************)
oGet     == Req(nGet, "GET", "o", <<>>, FALSE)
oGetPost == Req(nGet, "POST", "o", <<>>, FALSE)
oInj     == Req(nGetInj, "GET", "o", <<>>, FALSE)
oBare    == Req(nGet, "", "o", <<>>, FALSE)   \* "request" without "method"

OItems ==
    { oGet, oInj, oBare,
      Other(nGet, "o"),
      Folder(nF, <<oGet>>, "o"),
      Folder(nInjF, <<oGet>>, "o"),
      Folder(nH, <<Folder(nF, <<oGetPost>>, "o")>>, "o"),
      Folder(nH, <<Folder(nInjF, <<oInj>>, "o")>>, "o") }

uGet  == Req(nGet, "GET", "u", <<>>, TRUE)
uGet2 == Req(nGet, "GET", "u2", <<>>, TRUE)
uInj  == Req(nGetInj, "GET", "u", <<>>, TRUE)

UClones == { Req(nGetCopy, "GET", "u", p, TRUE) : p \in {<<>>, nF, nInjF} }

UItems ==
    { uGet, uInj, Other(nGet, "u") } \cup UClones
    \cup { Folder(nG, <<uGet2>>, "u"),
           Folder(nG, <<Req(nGetCopy, "GET", "u", nF, TRUE)>>, "u") }

OTrees == SeqUpTo(OItems, MaxRoot)
UTrees == SeqUpTo(UItems, MaxRoot)

(***************************************************************************)
(* The merge state machine.                                                *)
(***************************************************************************)
MergeInit ==
    /\ original_items \in OTrees
    /\ updated_items \in UTrees
    /\ merged_result = <<>>
    /\ remerged_result = <<>>
    /\ original_items_after = original_items
    /\ mpc = "start"
    /\ InjectIdle
    /\ FlatIdle
    /\ FilterIdle
    /\ LaterIdle

\* merged = merge_collection_items(original_items, updated_items)
MergeCall ==
    /\ mpc = "start"
    /\ merged_result' = merge_collection_items(original_items, updated_items)
    /\ original_items_after' = original_after_merge(original_items, updated_items)
    /\ mpc' = "merged"
    /\ UNCHANGED <<original_items, updated_items, remerged_result>>
    /\ UNCHANGED <<injectVars, flatVars, filterVars, laterVars>>

\* the same updated tree merged again, against the result of the first merge
ReMergeCall ==
    /\ mpc = "merged"
    /\ remerged_result' = merge_collection_items(merged_result, updated_items)
    /\ merged_result' = original_after_merge(merged_result, updated_items)
    /\ mpc' = "remerged"
    /\ UNCHANGED <<original_items, updated_items, original_items_after>>
    /\ UNCHANGED <<injectVars, flatVars, filterVars, laterVars>>

MergeNext == MergeCall \/ ReMergeCall

SpecMerge == MergeInit /\ [][MergeNext]_vars

(***************************************************************************)
(* Request and response bodies.                                            *)
(***************************************************************************)
kA == <<"a">>
kB == <<"b">>
kC == <<"c">>
kD == <<"d">>

sX == JStr(<<"x">>)
n1 == JInt(<<"1">>)

Scalars == {sX, n1, JBool(<<"true">>), JNull}

InnerDicts ==
    {JDict(<<>>)}
    \cup {JDict(<<Pair(k, v)>>) : k \in {kB, kD}, v \in Scalars}
    \cup {JDict(<<Pair(kB, v), Pair(kD, w)>>) : v \in Scalars, w \in Scalars}

Elements ==
    Scalars \cup {JDict(<<Pair(kD, sX)>>), JDict(<<Pair(kB, n1), Pair(kD, sX)>>)}

Arrays == {JList(e) : e \in SeqUpTo(Elements, MaxList)}

DeepValues ==
    { JDict(<<Pair(kB, JDict(<<Pair(kD, sX)>>))>>),
      JDict(<<Pair(kB, JList(<<JDict(<<Pair(kD, sX)>>)>>))>>),
      JList(<<JList(<<n1>>)>>),
      JList(<<JDict(<<Pair(kB, JList(<<sX, sX>>))>>)>>) }

Values == Scalars \cup InnerDicts \cup Arrays \cup DeepValues

TopDicts ==
    {JDict(<<>>)}
    \cup {JDict(<<Pair(k, v)>>) : k \in {kA, kC}, v \in Values}
    \cup {JDict(<<Pair(kA, v), Pair(kC, w)>>) : v \in Values, w \in Values}

\* {"user": {"name": "Bob", "age": 30}}
BobBody ==
    JDict(<<Pair(<<"user">>,
                 JDict(<<Pair(<<"name">>, JStr(<<"Bob">>)),
                         Pair(<<"age">>, JInt(<<"30">>))>>))>>)

\* {"a": {"b": 1}, "c": [{"d": "x"}]}
FlatExample ==
    JDict(<<Pair(kA, JDict(<<Pair(kB, n1)>>)),
            Pair(kC, JList(<<JDict(<<Pair(kD, sX)>>)>>))>>)

Bodies == TopDicts \cup {BobBody, NoBody, JList(<<JDict(<<Pair(kD, sX)>>)>>)}

(***************************************************************************)
(* The XSS variants of one converted request                               *)
(* (convert_swagger_to_postman, "Generate XSS variants").                  *)
(***************************************************************************)
InjectInit ==
    /\ include_xss \in BOOLEAN
    /\ body_data \in Bodies
    /\ string_fields = <<>>
    /\ xss_folder = [present |-> FALSE, item |-> <<>>]
    /\ ipc = "start"
    /\ MergeIdle
    /\ FlatIdle
    /\ FilterIdle
    /\ LaterIdle

\* the folder "XSS-Injections" is built only with include_xss; it gets one
\* variant per string field when the body is a JSON object
GenerateXssVariants ==
    /\ ipc = "start"
    /\ LET fields == IF include_xss /\ body_data.t = "dict"
                     THEN extract_nested_string_fields(body_data, <<>>, DefaultMaxDepth, 0)
                     ELSE <<>>
       IN /\ string_fields' = fields
          /\ xss_folder' =
                [present |-> include_xss,
                 item |-> [i \in DOMAIN fields |->
                              variant_request(nGet, body_data, fields[i])]]
    /\ ipc' = "done"
    /\ UNCHANGED <<include_xss, body_data>>
    /\ UNCHANGED <<mergeVars, flatVars, filterVars, laterVars>>

InjectNext == GenerateXssVariants

SpecInject == InjectInit /\ [][InjectNext]_vars

(***************************************************************************)
(* extract_flat_attributes applied to a response body.                     *)
(***************************************************************************)
FlatInit ==
    /\ response_body \in TopDicts
    /\ flat_attributes = <<>>
    /\ fpc = "start"
    /\ MergeIdle
    /\ InjectIdle
    /\ FilterIdle
    /\ LaterIdle

ExtractFlat ==
    /\ fpc = "start"
    /\ flat_attributes' = extract_flat_attributes(response_body, <<>>)
    /\ fpc' = "done"
    /\ UNCHANGED response_body
    /\ UNCHANGED <<mergeVars, injectVars, filterVars, laterVars>>

FlatNext == ExtractFlat

SpecFlat == FlatInit /\ [][FlatNext]_vars

(***************************************************************************)
(* generate_filtered_collection of collections.py.                         *)
(***************************************************************************)
\* The path of the first request, in depth-first order, with the name and
\* (upper-cased) method; <<>> when there is none.  Folders are entered where
\* they stand; an item with neither "item" nor "request" is skipped.
RECURSIVE find_request_path(_, _, _, _)
find_request_path(items, target_name, target_method, i) ==
    IF i > Len(items) THEN <<>>
    ELSE LET it == items[i] IN
         IF it.kind = "folder" THEN
              LET found == find_request_path(it.item, target_name, target_method, 1) IN
              IF found # <<>> THEN <<i>> \o found
              ELSE find_request_path(items, target_name, target_method, i + 1)
         ELSE IF /\ it.kind = "request"
                 /\ it.name = target_name
                 /\ Upper(it.method) = Upper(target_method)
              THEN <<i>>
         ELSE find_request_path(items, target_name, target_method, i + 1)

\* (request_item, parent_items_list): the request by its path, the list that
\* holds it by the path of its folder (<<>> for the root list)
find_request_and_parent(items, target_name, target_method) ==
    LET p == find_request_path(items, target_name, target_method, 1) IN
    [found |-> p # <<>>,
     request_path |-> p,
     parent_path |-> IF p = <<>> THEN <<>> ELSE SubSeq(p, 1, Len(p) - 1)]

\* the "item" list of the folder at path (the root list for <<>>)
RECURSIVE ListAt(_, _)
ListAt(items, path) ==
    IF path = <<>> THEN items
    ELSE ListAt(items[path[1]].item, Tail(path))

\* the tree after the list at path has become new_list (the list is mutated
\* in place, so the tree changes nowhere else)
RECURSIVE SetListAt(_, _, _)
SetListAt(items, path, new_list) ==
    IF path = <<>> THEN new_list
    ELSE LET folder == items[path[1]] IN
         [items EXCEPT ![path[1]] =
            [folder EXCEPT !.item = SetListAt(folder.item, Tail(path), new_list)]]

kType     == <<"type">>
kName     == <<"name">>
kNullable == <<"nullable">>
kRequired == <<"required">>
kZ        == <<"z">>

Meta(name, type, nullable, required, path) ==
    [name |-> name, type |-> type, nullable |-> nullable,
     required |-> required, path |-> path]

\* value.get(key, default) for a string-valued or boolean-valued member
GetOr(d, k, default) == IF Has(d, k) THEN Get(d, k) ELSE default

\* the members of data in schema format ({name, type, nullable, required})
\* are taken as they are; other objects are entered; every other value,
\* arrays included, is a primitive typed by its runtime tag
RECURSIVE extract_schema_metadata(_)
RECURSIVE extract_schema_of_items(_, _)
extract_schema_metadata(data) ==
    IF data.t = "dict" THEN extract_schema_of_items(data.kv, <<>>) ELSE <<>>

RECURSIVE PrefixKeys(_, _)
PrefixKeys(key, nested) ==
    IF nested = <<>> THEN <<>>
    ELSE <<Pair(key \o <<".">> \o Head(nested).k, Head(nested).v)>>
         \o PrefixKeys(key, Tail(nested))

extract_schema_of_items(kv, attributes) ==
    IF kv = <<>> THEN attributes
    ELSE LET key == Head(kv).k
             value == Head(kv).v
             next ==
                 IF value.t = "dict" THEN
                      IF Has(value, kType) \/ Has(value, kName)
                      THEN Put(JDict(attributes), key,
                               Meta(GetOr(value, kName, JStr(key)).s,
                                    GetOr(value, kType, JStr(<<"string">>)).s,
                                    GetOr(value, kNullable, JBool(<<"false">>)),
                                    GetOr(value, kRequired, JBool(<<"false">>)),
                                    key)).kv
                      ELSE DictUpdate(attributes,
                                      PrefixKeys(key, extract_schema_metadata(value)))
                 ELSE Put(JDict(attributes), key,
                          Meta(key, <<leaf_type(value)>>, JBool(<<"false">>),
                               JBool(<<"false">>), key)).kv
         IN extract_schema_of_items(Tail(kv), next)

\* the fallback of lines 1298-1309: the flat attributes in schema format
flat_as_schema(flat) ==
    [i \in DOMAIN flat |->
        Pair(flat[i].k, Meta(flat[i].k, <<flat[i].v.type>>, JBool(<<"false">>),
                             JBool(<<"false">>), flat[i].k))]

\* custom attributes override schema attributes of the same name
RECURSIVE merge_custom_attributes(_, _)
merge_custom_attributes(schema_attributes, custom_attributes) ==
    IF custom_attributes = <<>> THEN schema_attributes
    ELSE LET attr_name == Head(custom_attributes).k
             attr_data == Head(custom_attributes).v
         IN merge_custom_attributes(
                Put(JDict(schema_attributes), attr_name,
                    Meta(GetOr(attr_data, kName, JStr(attr_name)).s,
                         GetOr(attr_data, kType, JStr(<<"string">>)).s,
                         GetOr(attr_data, kNullable, JBool(<<"false">>)),
                         JBool(<<"false">>),
                         attr_name)).kv,
                Tail(custom_attributes))

resolve_schema_attributes(body, custom_attributes) ==
    LET schema == extract_schema_metadata(body)
        base == IF schema = <<>>
                THEN flat_as_schema(extract_flat_attributes(body, <<>>))
                ELSE schema
    IN merge_custom_attributes(base, custom_attributes)

\* The copy of the original request that becomes a generated request: a new
\* name, everything else as in the original (the query parameters and body
\* fields written into the copy are not part of the item record).
renamed_copy(original_request, name) == [original_request EXCEPT !.name = name]

generate_request_from_attribute(original_request, attribute_name, condition) ==
    renamed_copy(original_request,
                 original_request.name \o <<"_">> \o attribute_name \o <<"_">>
                    \o ReplaceTok(condition, " ", "_"))

clone_request_with_filters(original_request, filter_condition) ==
    renamed_copy(original_request,
                 original_request.name \o <<"_">>
                    \o ReplaceTok(filter_condition.attribute \o <<"_">>
                                    \o filter_condition.condition \o <<"_">>
                                    \o filter_condition.value, " ", "_"))

mapped_request(original_request) ==
    renamed_copy(original_request, original_request.name \o <<"_", "Mapped">>)

\* The defaults of get_conditions_for_type (no master data file
\* Backend/MasterData/filtering_conditions.json in the working directory).
get_conditions_for_type(data_type) ==
    IF data_type = <<"string">>
    THEN <<<<"EQ">>, <<"NEQ">>, <<"Contains">>, <<"NotContains">>>>
    ELSE IF data_type \in {<<"integer">>, <<"number">>, <<"int32">>, <<"int64">>,
                           <<"float">>, <<"double">>}
    THEN <<<<"EQ">>, <<"NEQ">>, <<"GT">>, <<"LT">>, <<"GTE">>, <<"LTE">>>>
    ELSE <<<<"EQ">>, <<"NEQ">>>>

\* The iteration over schema_attributes (lines 1331-1358).  An attribute
\* without an entry in selected_conditions reaches request.custom_conditions,
\* which is not a field of GenerateFilteredCollectionRequest: the attribute
\* access raises and the call ends there.
RECURSIVE iterate_attributes(_, _, _, _)
iterate_attributes(schema_attributes, selected_conditions, original_request, acc) ==
    IF schema_attributes = <<>> THEN [raised |-> FALSE, requests |-> acc]
    ELSE LET attribute_name == Head(schema_attributes).k IN
         IF Has(JDict(selected_conditions), attribute_name)
         THEN LET conditions == Get(JDict(selected_conditions), attribute_name)
              IN iterate_attributes(
                    Tail(schema_attributes), selected_conditions, original_request,
                    acc \o [c \in DOMAIN conditions |->
                              generate_request_from_attribute(
                                  original_request, attribute_name, conditions[c])])
         ELSE [raised |-> TRUE, requests |-> <<>>]

\* lines 1325-1436: the generated requests, by iteration, from the legacy
\* filters, or the single mapped request
generate_requests(original_request, body, custom_attributes, selected_conditions, generate_all_conditions, filters) ==
    IF generate_all_conditions \/ Len(selected_conditions) > 0
    THEN iterate_attributes(resolve_schema_attributes(body, custom_attributes),
                            selected_conditions, original_request, <<>>)
    ELSE IF Len(filters) > 0
    THEN [raised |-> FALSE,
          requests |-> [f \in DOMAIN filters |->
                          clone_request_with_filters(original_request, filters[f])]]
    ELSE [raised |-> FALSE, requests |-> <<mapped_request(original_request)>>]

\* index of the first folder of the name in parent_items (from 1; 0 for None)
find_folder_index(parent_items, folder_name) ==
    IF \E i \in DOMAIN parent_items :
          parent_items[i].kind = "folder" /\ parent_items[i].name = folder_name
    THEN CHOOSE i \in DOMAIN parent_items :
            /\ parent_items[i].kind = "folder" /\ parent_items[i].name = folder_name
            /\ \A j \in 1..(i - 1) :
                  ~(parent_items[j].kind = "folder" /\ parent_items[j].name = folder_name)
    ELSE 0

RemoveAt(list, i) == SubSeq(list, 1, i - 1) \o SubSeq(list, i + 1, Len(list))

\* the new folder takes the place of the one it replaces
put_folder_in_place(parent_items, folder_index, filtering_folder) ==
    IF folder_index # 0
    THEN [parent_items EXCEPT ![folder_index] = filtering_folder]
    ELSE Append(parent_items, filtering_folder)

\* the old folder is left where it is
put_folder_keeping_old(parent_items, folder_index, filtering_folder) ==
    Append(parent_items, filtering_folder)

\* lines 1484-1496: parent_items.pop(folder_index) when a folder of the name
\* exists, then parent_items.append(filtering_folder)
put_folder(parent_items, folder_index, filtering_folder) ==
    Append(IF folder_index # 0 THEN RemoveAt(parent_items, folder_index)
           ELSE parent_items,
           filtering_folder)

(***************************************************************************)
(* The stored collection and the requests of generate-filtered.            *)
(***************************************************************************)
nPut == <<"Put">>
sFiltering == <<" ", "Filtering">>

fGet     == Req(nGet, "GET", "o", <<>>, FALSE)
fGetPost == Req(nGet, "POST", "o", <<>>, FALSE)
fPut     == Req(nPut, "put", "o", <<>>, FALSE)

\* a "Get Filtering" folder of an earlier generation
oldGetFiltering ==
    Folder(nGet \o sFiltering, <<Req(nGet \o <<"_", "old">>, "GET", "o", <<>>, FALSE)>>, "")

StoredTrees ==
    { <<fGet, fPut>>,
      <<fGet, fGetPost>>,
      <<Folder(nF, <<fGet>>, "o"), fPut, fGet>>,
      <<oldGetFiltering, fGet, fPut>>,
      <<Folder(nF, <<fGet, oldGetFiltering, fPut>>, "o")>>,
      <<oldGetFiltering, Folder(nF, <<fGet>>, "o")>>,
      <<Other(nGet, "o"), Req(nGet \o sFiltering, "GET", "o", <<>>, FALSE), fGet>> }

Collection(present, item, id, variable) ==
    [present |-> present, item |-> item, info_postman_id |-> id, variable |-> variable]

StoredCollections ==
    {Collection(FALSE, <<>>, FALSE, "absent")}
    \cup {Collection(TRUE, t, TRUE, "list") : t \in StoredTrees}
    \cup {Collection(TRUE, <<fGet, fPut>>, FALSE, v) : v \in {"absent", "other"}}

RequestNames == {nGet, nPut}
RequestMethods == {"GET", "get", "PUT", "POST"}

cEQ     == <<"EQ">>
cNEQ    == <<"NEQ">>
cIsNull == <<"Is", " ", "Null">>

ResponseBodies ==
    { JDict(<<>>),
      JDict(<<Pair(kA, n1)>>),
      JDict(<<Pair(kA, n1), Pair(kC, sX)>>),
      JDict(<<Pair(kA, JDict(<<Pair(kType, JStr(<<"integer">>))>>))>>),
      FlatExample }

CustomAttributes ==
    { <<>>, <<Pair(kZ, JDict(<<Pair(kType, JStr(<<"boolean">>))>>))>> }

\* None and {} are both <<>>
SelectedConditions ==
    { <<>>,
      <<Pair(kA, <<>>)>>,
      <<Pair(kA, <<cEQ>>)>>,
      <<Pair(kA, <<cEQ, cIsNull>>), Pair(kC, <<cNEQ>>), Pair(kZ, <<cEQ>>)>> }

Filters ==
    { <<>>, <<[value |-> <<"1">>, condition |-> cEQ, attribute |-> kA]>> }

Payload(body, custom_attributes, selected_conditions, generate_all_conditions, filters) ==
    [response_body |-> body, custom_attributes |-> custom_attributes,
     selected_conditions |-> selected_conditions,
     generate_all_conditions |-> generate_all_conditions, filters |-> filters]

\* the rest of a GenerateFilteredCollectionRequest
Payloads ==
    {Payload(b, <<>>, s, g, <<>>) :
        b \in ResponseBodies, s \in SelectedConditions, g \in BOOLEAN}
    \cup {Payload(JDict(<<Pair(kA, n1)>>), c, s, FALSE, f) :
            c \in CustomAttributes, s \in SelectedConditions, f \in Filters}

FilterInit ==
    /\ source_collection \in StoredCollections
    /\ last_call = NoCall
    /\ last_saved = NoneSaved
    /\ ok_log = <<>>
    /\ ncalls = 0
    /\ MergeIdle
    /\ InjectIdle
    /\ FlatIdle
    /\ LaterIdle

Failed(status, request_name, request_method) ==
    /\ last_call' = [status |-> status, request_name |-> request_name,
                     request_method |-> request_method,
                     folder_index |-> 0, generated_requests |-> <<>>]
    /\ UNCHANGED <<source_collection, last_saved, ok_log>>

\* POST /generate-filtered
GenerateFiltered(request_name, request_method, body, custom_attributes, selected_conditions, generate_all_conditions, filters) ==
    /\ ncalls < MaxCalls
    /\ ncalls' = ncalls + 1
    /\ UNCHANGED <<mergeVars, injectVars, flatVars, laterVars>>
    /\ LET found == find_request_and_parent(source_collection.item,
                                            request_name, request_method)
       IN
       IF ~source_collection.present \/ ~found.found
       THEN Failed(404, request_name, request_method)
       ELSE
       LET original_request == ItemAt(source_collection.item, found.request_path)
           parent_items == ListAt(source_collection.item, found.parent_path)
           generated == generate_requests(original_request, body, custom_attributes,
                                          selected_conditions, generate_all_conditions,
                                          filters)
           generated_requests == generated.requests
           folder_name == request_name \o sFiltering
           folder_index == find_folder_index(parent_items, folder_name)
           filtering_folder == Folder(folder_name, generated_requests, "")
       IN
       IF generated.raised
       THEN Failed(500, request_name, request_method)
       ELSE IF generated_requests = <<>>
       THEN Failed(400, request_name, request_method)
       ELSE
          /\ source_collection' =
                [source_collection EXCEPT
                    !.item = SetListAt(source_collection.item, found.parent_path,
                                       put_folder(parent_items, folder_index,
                                                  filtering_folder)),
                    !.info_postman_id = TRUE,
                    !.variable = "list"]
          /\ last_call' = [status |-> 200, request_name |-> request_name,
                           request_method |-> request_method,
                           folder_index |-> folder_index,
                           generated_requests |-> generated_requests]
          /\ last_saved' = [last_saved EXCEPT ![request_name] =
                               [valid |-> TRUE, request_method |-> request_method,
                                generated_requests |-> generated_requests]]
          /\ ok_log' = Append(ok_log, request_name)

FilterNext ==
    \E request_name \in RequestNames, request_method \in RequestMethods,
       p \in Payloads :
        GenerateFiltered(request_name, request_method, p.response_body,
                         p.custom_attributes, p.selected_conditions,
                         p.generate_all_conditions, p.filters)

SpecFilter == FilterInit /\ [][FilterNext]_vars

(***************************************************************************)
(* Vocabulary of the merge claims: positions in an item tree.              *)
(***************************************************************************)
\* every index path from the root list to an item, at any depth
RECURSIVE PathsOf(_)
PathsOf(items) ==
    UNION { {<<i>>} \cup {<<i>> \o q : q \in PathsOf(items[i].item)} : i \in DOMAIN items }

\* p comes before q in depth-first (pre-order) traversal
PreOrderLess(p, q) ==
    \E k \in 1..Len(q) :
        /\ \A j \in 1..(k - 1) : j <= Len(p) /\ p[j] = q[j]
        /\ \/ k > Len(p)
           \/ k <= Len(p) /\ p[k] < q[k]

ItemsOf(items) == {ItemAt(items, p) : p \in PathsOf(items)}

IsInjectionTagged(x) ==
    \/ x.kind = "folder" /\ ContainsLower(x.name, "injection")
    \/ x.kind = "request" /\ ContainsLower(x.name, "injection")

\* some proper ancestor of the item at path is an injection-named folder
HasInjectionAncestor(items, path) ==
    \E k \in 1..(Len(path) - 1) :
        ContainsLower(ItemAt(items, SubSeq(path, 1, k)).name, "injection")

SameKey(a, b) == a.name = b.name /\ a.method = b.method

\* the leaves of U that may replace an original request
Candidates(r, U) ==
    { q \in PathsOf(U) :
        LET u == ItemAt(U, q) IN
        /\ u.kind # "folder"
        /\ ~ContainsLower(u.name, "injection")
        /\ ~ContainsLower(u.name, "(copy)")
        /\ SameKey(u, r) }

FirstCandidate(r, U) ==
    CHOOSE q \in Candidates(r, U) :
        \A q2 \in Candidates(r, U) : q2 = q \/ PreOrderLess(q, q2)

\* the pairs (original, updated, result) of the merges done so far
MergeRuns ==
    (IF mpc \in {"merged", "remerged"}
        THEN {<<original_items, updated_items, merged_result>>} ELSE {})
    \cup
    (IF mpc = "remerged"
        THEN {<<merged_result, updated_items, remerged_result>>} ELSE {})

(***************************************************************************)
(* C1: every request of O whose name does not contain "injection" is      *)
(* present in merge_collection_items(O, U): as the unchanged original      *)
(* item, or as an item of U with the same (name, method).                  *)
(***************************************************************************)
C1_OriginalsNeverDropped ==
    \A run \in MergeRuns :
        \A r \in ItemsOf(run[1]) :
            (r.kind = "request" /\ ~ContainsLower(r.name, "injection"))
            => \/ r \in ItemsOf(run[3])
               \/ \E u \in ItemsOf(run[2]) :
                      SameKey(u, r) /\ u \in ItemsOf(run[3])

\* one original request replaced by its updated counterpart and another one,
\* without counterpart, kept
C1_Witness ==
    /\ mpc = "merged"
    /\ \E r \in ItemsOf(original_items) :
          /\ r.kind = "request" /\ ~ContainsLower(r.name, "injection")
          /\ r \notin ItemsOf(merged_result)
    /\ \E r \in ItemsOf(original_items) :
          /\ r.kind = "request" /\ ~ContainsLower(r.name, "injection")
          /\ r \in ItemsOf(merged_result)
          /\ \A u \in ItemsOf(updated_items) : ~SameKey(u, r)

(***************************************************************************)
(* C2: an injection-tagged folder or request of O is in the result, at the *)
(* place it has in O, with exactly the content it has in O.                *)
(***************************************************************************)
C2_InjectionPreservedExactly ==
    mpc \in {"merged", "remerged"} =>
        \A p \in PathsOf(original_items) :
            IsInjectionTagged(ItemAt(original_items, p))
            => /\ p \in PathsOf(merged_result)
               /\ ItemAt(merged_result, p) = ItemAt(original_items, p)

(***************************************************************************)
(* C3: merging the same U again, against the result of the first merge,    *)
(* returns the result of the first merge.                                  *)
(***************************************************************************)
C3_ReMergeIdempotent ==
    mpc = "remerged" => remerged_result = merged_result

(***************************************************************************)
(* C4: every clone-tagged request of U, at any depth of U, is placed in    *)
(* the folder its parentFolderName names (the first such folder of the     *)
(* result in depth-first order), once per (name, method); without such a   *)
(* folder, or without parentFolderName, it is appended to the root list.   *)
(***************************************************************************)
ClonesOf(U) ==
    { q \in PathsOf(U) :
        ItemAt(U, q).kind = "request" /\ ContainsLower(ItemAt(U, q).name, "(copy)") }

FoldersNamed(items, n) ==
    { p \in PathsOf(items) :
        ItemAt(items, p).kind = "folder" /\ ItemAt(items, p).name = n }

FirstFolderNamed(items, n) ==
    CHOOSE p \in FoldersNamed(items, n) :
        \A p2 \in FoldersNamed(items, n) : p2 = p \/ PreOrderLess(p, p2)

\* how many requests of the list carry the (name, method) of c
CountKey(list, c) ==
    Cardinality({k \in DOMAIN list : list[k].kind = "request" /\ SameKey(list[k], c)})

\* the clone as it is inserted: without its tracking fields
Stripped(c) == [c EXCEPT !.pfn = <<>>, !.trk = FALSE]

GoesToRoot(U, q, result) ==
    \/ ItemAt(U, q).pfn = <<>>
    \/ FoldersNamed(result, ItemAt(U, q).pfn) = {}

C4_ClonePlacementIn(O, U, result) ==
    \A q \in ClonesOf(U) :
        LET c == ItemAt(U, q) IN
        IF GoesToRoot(U, q, result)
        THEN \* appended to the root, once per occurrence in U, after the
             \* items of the first pass
             /\ \E k \in (Len(O) + 1)..Len(result) : result[k] = Stripped(c)
             /\ Len(result) = Len(O)
                    + Cardinality({q2 \in ClonesOf(U) : GoesToRoot(U, q2, result)})
        ELSE LET p == FirstFolderNamed(result, c.pfn)
                 folder == ItemAt(result, p)
                 before == ItemAt(O, p)
             IN
             /\ CountKey(folder.item, c)
                   = (IF CountKey(before.item, c) = 0 THEN 1
                      ELSE CountKey(before.item, c))
             /\ CountKey(before.item, c) = 0
                   => \E k \in (Len(before.item) + 1)..Len(folder.item) :
                         folder.item[k] = Stripped(c)
             /\ \A k \in (Len(O) + 1)..Len(result) :
                   result[k] = Stripped(c)
                   => \E q2 \in ClonesOf(U) :
                         /\ GoesToRoot(U, q2, result)
                         /\ Stripped(ItemAt(U, q2)) = Stripped(c)

C5_Scenario ==
    (/\ mpc \in {"merged", "remerged"}
     /\ original_items = <<oGet>>
     /\ updated_items = <<uGet>>)
    => merged_result = <<updated_items[1]>>

C5_MatchedIsReplaced ==
    /\ C5_Scenario
    /\ mpc \in {"merged", "remerged"} =>
        \A p \in PathsOf(original_items) :
            LET r == ItemAt(original_items, p) IN
            (/\ r.kind = "request"
             /\ ~ContainsLower(r.name, "injection")
             /\ Candidates(r, updated_items) # {})
            => ItemAt(merged_result, p)
                  = ItemAt(updated_items, FirstCandidate(r, updated_items))

(***************************************************************************)
(* C5 as amended: the same, for the requests of O that are not inside an   *)
(* injection-named folder of O (such a folder is kept whole).              *)
(***************************************************************************)
C5_MatchedIsReplacedOutsideInjectionFolders ==
    /\ C5_Scenario
    /\ mpc \in {"merged", "remerged"} =>
        \A p \in PathsOf(original_items) :
            LET r == ItemAt(original_items, p) IN
            (/\ r.kind = "request"
             /\ ~ContainsLower(r.name, "injection")
             /\ ~HasInjectionAncestor(original_items, p)
             /\ Candidates(r, updated_items) # {})
            => ItemAt(merged_result, p)
                  = ItemAt(updated_items, FirstCandidate(r, updated_items))

\* a nested original request replaced by an item found inside a folder of U,
\* where U holds a second candidate later in depth-first order
C5_Witness ==
    /\ mpc = "merged"
    /\ \E p \in PathsOf(original_items) :
          LET r == ItemAt(original_items, p) IN
          /\ Len(p) > 1
          /\ r.kind = "request"
          /\ ~HasInjectionAncestor(original_items, p)
          /\ \E q \in Candidates(r, updated_items) :
                ItemAt(updated_items, q)
                   # ItemAt(updated_items, FirstCandidate(r, updated_items))
          /\ Len(FirstCandidate(r, updated_items)) > 1
          /\ ItemAt(merged_result, p) # r
          /\ ItemAt(merged_result, p)
                = ItemAt(updated_items, FirstCandidate(r, updated_items))

(***************************************************************************)
(* Vocabulary of the body claims: locations in a JSON value.  A location   *)
(* is a chain of steps from the root; a step selects a member of a dict    *)
(* (by key) or an element of a list (by index, from 1).                    *)
(***************************************************************************)
KeyStep(k) == [k |-> k, i |-> 0]
IdxStep(i) == [k |-> <<>>, i |-> i]

RECURSIVE Locs(_)
Locs(v) ==
    {<<>>}
    \cup (IF v.t = "dict"
          THEN UNION { {<<KeyStep(v.kv[j].k)>> \o c : c \in Locs(v.kv[j].v)} :
                          j \in DOMAIN v.kv }
          ELSE {})
    \cup (IF v.t = "list"
          THEN UNION { {<<IdxStep(j)>> \o c : c \in Locs(v.el[j])} : j \in DOMAIN v.el }
          ELSE {})

RECURSIVE NodeAt(_, _)
NodeAt(v, chain) ==
    IF chain = <<>> THEN v
    ELSE IF Head(chain).i = 0
         THEN NodeAt(Get(v, Head(chain).k), Tail(chain))
         ELSE NodeAt(v.el[Head(chain).i], Tail(chain))

\* the value with the node at chain replaced by new, nothing else touched
RECURSIVE ReplaceAt(_, _, _)
ReplaceAt(v, chain, new) ==
    IF chain = <<>> THEN new
    ELSE IF Head(chain).i = 0
         THEN [v EXCEPT !.kv =
                 [j \in DOMAIN v.kv |->
                    IF v.kv[j].k = Head(chain).k
                    THEN Pair(v.kv[j].k, ReplaceAt(v.kv[j].v, Tail(chain), new))
                    ELSE v.kv[j]]]
         ELSE [v EXCEPT !.el =
                 [j \in DOMAIN v.el |->
                    IF j = Head(chain).i
                    THEN ReplaceAt(v.el[j], Tail(chain), new)
                    ELSE v.el[j]]]

\* the keys of the chain joined by ".", the index steps left out
RECURSIVE DottedPath(_)
DottedPath(chain) ==
    IF chain = <<>> THEN <<>>
    ELSE LET rest == DottedPath(Tail(chain)) IN
         IF Head(chain).i # 0 THEN rest
         ELSE IF rest = <<>> THEN Head(chain).k
         ELSE Head(chain).k \o <<".">> \o rest

IsScalar(v) == v.t \notin {"dict", "list"}

\* the chain enters lists only at their first element, and only when that
\* element is an object
Sampled(v, chain) ==
    \A n \in 1..Len(chain) :
        chain[n].i # 0 =>
            /\ chain[n].i = 1
            /\ NodeAt(v, SubSeq(chain, 1, n)).t = "dict"

\* the member (last step a key) the field path names
FieldChains(v, path) ==
    { c \in Locs(v) :
        /\ c # <<>>
        /\ c[Len(c)].i = 0
        /\ Sampled(v, c)
        /\ DottedPath(c) = path }

pUserName == <<"user", ".", "name">>
pUserAge  == <<"user", ".", "age">>

(***************************************************************************)
(* C8 as claimed: for the body {"user":{"name":"Bob","age":30}} the field  *)
(* paths are exactly ["user.name", "user.age"] and include_xss yields      *)
(* exactly 2 requests in XSS-Injections.                                   *)
(***************************************************************************)
C8_BobTwoFields ==
    (ipc = "done" /\ include_xss /\ body_data = BobBody)
    => /\ string_fields = <<pUserName, pUserAge>>
       /\ Len(xss_folder.item) = 2

(***************************************************************************)
(* C8 as amended: for that body the field paths are exactly ["user.name"]  *)
(* (age is a number, not a string field) and include_xss yields exactly 1  *)
(* request in XSS-Injections: one request per extracted field path.        *)
(***************************************************************************)
C8_BobOneField ==
    /\ (ipc = "done" /\ include_xss /\ body_data = BobBody)
       => /\ string_fields = <<pUserName>>
          /\ xss_folder.present
          /\ Len(xss_folder.item) = 1
          /\ xss_folder.item[1].name
                = <<"Get", " ", "XSS-", "Injection", " ", "user", "-", "name">>
          /\ xss_folder.item[1].body
                = JDict(<<Pair(<<"user">>,
                               JDict(<<Pair(<<"name">>, XSS_PAYLOAD_0),
                                       Pair(<<"age">>, JInt(<<"30">>))>>))>>)
    /\ ipc = "done" => Len(xss_folder.item) = Len(string_fields)

C8_Witness ==
    /\ ipc = "done"
    /\ include_xss
    /\ body_data = BobBody
    /\ Len(xss_folder.item) = 1

(***************************************************************************)
(* C9: for every field path returned by extract_nested_string_fields, the  *)
(* variant body holds the payload at the member the path names and is      *)
(* equal to the original body everywhere else.                             *)
(***************************************************************************)
C9_OnlyTargetChanged ==
    ipc = "done" =>
        \A n \in DOMAIN xss_folder.item :
            \E c \in FieldChains(body_data, string_fields[n]) :
                xss_folder.item[n].body = ReplaceAt(body_data, c, XSS_PAYLOAD_0)

(***************************************************************************)
(* C10 as claimed: extract_flat_attributes returns one entry per leaf      *)
(* primitive (for an array, of its first element only), keyed by the       *)
(* dotted path, with the leaf's value and type boolean / number / string;  *)
(* {"a":{"b":1},"c":[{"d":"x"}]} yields exactly a.b and c.d.               *)
(***************************************************************************)
RuntimeType(v) ==
    CASE v.t = "bool" -> "boolean"
      [] v.t \in {"int", "float"} -> "number"
      [] OTHER -> "string"

Entry(path, value, type) ==
    Pair(path, [value |-> value, type |-> type, path |-> path])

EntriesOf(attributes) == {attributes[n] : n \in DOMAIN attributes}

FirstOnly(chain) == \A n \in 1..Len(chain) : chain[n].i \in {0, 1}

C10_Example ==
    (fpc = "done" /\ response_body = FlatExample)
    => flat_attributes
          = << Entry(<<"a", ".", "b">>, n1, "number"),
               Entry(<<"c", ".", "d">>, sX, "string") >>

C10_OneEntryPerLeaf ==
    /\ C10_Example
    /\ fpc = "done" =>
        /\ EntriesOf(flat_attributes)
              = { Entry(DottedPath(c), NodeAt(response_body, c),
                        RuntimeType(NodeAt(response_body, c))) :
                     c \in { c \in Locs(response_body) :
                               /\ FirstOnly(c)
                               /\ IsScalar(NodeAt(response_body, c)) } }
        /\ Len(flat_attributes) = Cardinality(EntriesOf(flat_attributes))

(***************************************************************************)
(* C10 as amended: one entry per object member that is a primitive, typed  *)
(* by its runtime tag; an array is entered only at its first element and   *)
(* only when that element is an object; an array whose first element is    *)
(* not an object yields one entry at the array's own path, with that first *)
(* element as value and type "string"; empty arrays and objects yield      *)
(* nothing; the example yields exactly a.b and c.d.                        *)
(***************************************************************************)
C10_FlatEntries ==
    /\ C10_Example
    /\ fpc = "done" =>
        /\ EntriesOf(flat_attributes)
              = { Entry(DottedPath(c), NodeAt(response_body, c),
                        RuntimeType(NodeAt(response_body, c))) :
                     c \in { c \in Locs(response_body) :
                               /\ c # <<>>
                               /\ c[Len(c)].i = 0
                               /\ Sampled(response_body, c)
                               /\ IsScalar(NodeAt(response_body, c)) } }
                \cup
                { Entry(DottedPath(c), NodeAt(response_body, c).el[1], "string") :
                     c \in { c \in Locs(response_body) :
                               /\ c # <<>>
                               /\ Sampled(response_body, c)
                               /\ NodeAt(response_body, c).t = "list"
                               /\ NodeAt(response_body, c).el # <<>>
                               /\ NodeAt(response_body, c).el[1].t # "dict" } }
        /\ Len(flat_attributes) = Cardinality(EntriesOf(flat_attributes))

\* a body with an array of numbers beside a nested object and an array of
\* objects
C10_Witness ==
    /\ fpc = "done"
    /\ \E n \in DOMAIN flat_attributes :
          /\ flat_attributes[n].v.type = "string"
          /\ flat_attributes[n].v.value.t = "int"
    /\ \E n \in DOMAIN flat_attributes :
          flat_attributes[n].v.type = "number"
    /\ Len(flat_attributes) >= 3

(***************************************************************************)
(* Vocabulary of the generate-filtered claims.                             *)
(***************************************************************************)
FilteringName(request_name) == request_name \o <<" ", "Filtering">>

IsRequest(x, request_name, request_method) ==
    /\ x.kind = "request"
    /\ x.name = request_name
    /\ Upper(x.method) = Upper(request_method)

\* the request is x or lies somewhere below x
RECURSIVE Holds(_, _, _)
Holds(x, request_name, request_method) ==
    \/ IsRequest(x, request_name, request_method)
    \/ \E i \in DOMAIN x.item : Holds(x.item[i], request_name, request_method)

\* the sibling list that holds the request (the first such request in
\* depth-first order); <<>> when there is none
RECURSIVE SiblingsOf(_, _, _)
SiblingsOf(items, request_name, request_method) ==
    LET holding == {i \in DOMAIN items : Holds(items[i], request_name, request_method)}
        first == CHOOSE i \in holding : \A j \in holding : i <= j
    IN IF holding = {} THEN <<>>
       ELSE IF IsRequest(items[first], request_name, request_method) THEN items
       ELSE SiblingsOf(items[first].item, request_name, request_method)

FilteringFoldersIn(list, request_name) ==
    { i \in DOMAIN list :
        list[i].kind = "folder" /\ list[i].name = FilteringName(request_name) }

(***************************************************************************)
(* C6: after any number of generate-filtered calls, for every request that *)
(* had a call that generated requests, the sibling list that holds the     *)
(* request contains exactly one folder named "<requestName> Filtering",    *)
(* and its items are those generated by the most recent such call.         *)
(***************************************************************************)
C6_OneFilteringFolder ==
    \A n \in DOMAIN last_saved :
        last_saved[n].valid =>
            LET siblings == SiblingsOf(source_collection.item, n,
                                       last_saved[n].request_method)
                folders == FilteringFoldersIn(siblings, n)
            IN /\ Cardinality(folders) = 1
               /\ \A i \in folders :
                     siblings[i].item = last_saved[n].generated_requests

\* a second generation for the same request has replaced the folder of the
\* first, with a call that failed in between or a different list of requests
C6_Witness ==
    /\ last_call.status = 200
    /\ last_call.folder_index # 0
    /\ \E i \in DOMAIN ok_log :
          /\ i < Len(ok_log)
          /\ ok_log[i] = last_call.request_name
          /\ ok_log[Len(ok_log)] = last_call.request_name
    /\ Len(last_call.generated_requests) >= 2

\* The step is a call of generate-filtered that saved the collection and
\* found a folder of the name in the sibling list of its request (before).
ReplacingStep(before) ==
    /\ ncalls' = ncalls + 1
    /\ last_call'.status = 200
    /\ FilteringFoldersIn(before, last_call'.request_name) # {}

\* the index of the folder that is replaced
ReplacedIndex(before) ==
    CHOOSE i \in FilteringFoldersIn(before, last_call'.request_name) :
        \A j \in FilteringFoldersIn(before, last_call'.request_name) : i <= j

NewFolder ==
    Folder(FilteringName(last_call'.request_name), last_call'.generated_requests, "")

(***************************************************************************)
(* C7 as claimed: when generate-filtered replaces an existing              *)
(* "<requestName> Filtering" folder, the new folder sits at the same index *)
(* of the sibling list as the folder it replaced.                          *)
(***************************************************************************)
C7_ReplacedAtSameIndex ==
    [][LET before == SiblingsOf(source_collection.item, last_call'.request_name,
                                last_call'.request_method)
           after == SiblingsOf(source_collection'.item, last_call'.request_name,
                               last_call'.request_method)
       IN ReplacingStep(before) => after[ReplacedIndex(before)] = NewFolder]_vars

(***************************************************************************)
(* C7 as amended: when generate-filtered replaces an existing              *)
(* "<requestName> Filtering" folder, the old folder is removed and the new *)
(* folder becomes the last item of the sibling list: the list keeps its    *)
(* length, the items before the old folder keep their index and the items  *)
(* after it move up by one.  The new folder has the index of the folder it *)
(* replaced only when that folder was the last item of the list.           *)
(***************************************************************************)
C7_ReplacedFolderGoesLast ==
    [][LET before == SiblingsOf(source_collection.item, last_call'.request_name,
                                last_call'.request_method)
           after == SiblingsOf(source_collection'.item, last_call'.request_name,
                               last_call'.request_method)
           idx == ReplacedIndex(before)
       IN ReplacingStep(before) =>
            /\ Len(after) = Len(before)
            /\ after[Len(after)] = NewFolder
            /\ \A j \in 1..(idx - 1) : after[j] = before[j]
            /\ \A j \in (idx + 1)..Len(before) : after[j - 1] = before[j]
            /\ FilteringFoldersIn(after, last_call'.request_name) = {Len(after)}
            /\ (after[idx] = NewFolder) <=> (idx = Len(before))]_vars

\* the folder of one request is replaced after a call for another request
\* has added its folder behind it
C7_Witness ==
    /\ last_call.status = 200
    /\ last_call.folder_index # 0
    /\ LET siblings == SiblingsOf(source_collection.item, last_call.request_name,
                                  last_call.request_method)
       IN /\ last_call.folder_index < Len(siblings)
          /\ \E j \in DOMAIN siblings :
                /\ siblings[j].kind = "folder"
                /\ siblings[j].name \in {FilteringName(n) : n \in {nGet, nPut}}
                /\ siblings[j].name # FilteringName(last_call.request_name)
    /\ \E j \in DOMAIN ok_log :
          /\ j < Len(ok_log)
          /\ ok_log[j] # last_call.request_name
          /\ ok_log[Len(ok_log)] = last_call.request_name

(***************************************************************************)
(* apply_filter_condition of collections.py.  The strings of this part are *)
(* sequences of characters.                                                *)
(***************************************************************************)
JFloat(s) == [t |-> "float", s |-> s, kv |-> <<>>, el |-> <<>>]

LowerStr(str) == [i \in DOMAIN str |-> Lower(str[i])]

\* str.strip()
RECURSIVE Strip(_)
Strip(str) ==
    IF str # <<>> /\ Head(str) = " " THEN Strip(Tail(str))
    ELSE IF str # <<>> /\ str[Len(str)] = " " THEN Strip(SubSeq(str, 1, Len(str) - 1))
    ELSE str

\* an integer of 401 digits: the second token stands for 400 zeros
HugeInt == JInt(<<"1", "0{400}">>)

\* the numbers the model can spell, in tenths
Tenths(str) ==
    CASE str = <<"5">>           -> 50
      [] str = <<"3">>           -> 30
      [] str = <<"1", "0">>      -> 100
      [] str = <<"7", ".", "5">> -> 75
      [] str = <<"-", "3">>      -> 0 - 30
      [] OTHER                   -> 0

Spelled == {<<"5">>, <<"3">>, <<"1", "0">>, <<"7", ".", "5">>, <<"-", "3">>}

Float(n) == [err |-> "none", nan |-> FALSE, n |-> n]
NaN == [err |-> "none", nan |-> TRUE, n |-> 0]
Raises(e) == [err |-> e, nan |-> FALSE, n |-> 0]

\* float(str): surrounding whitespace is ignored, "nan" is accepted, anything
\* that does not spell a number raises ValueError
float_of_str(str) ==
    IF Strip(str) \in Spelled THEN Float(Tenths(Strip(str)))
    ELSE IF LowerStr(Strip(str)) = <<"n", "a", "n">> THEN NaN
    ELSE Raises("ValueError")

\* float(value) for a JSON value: an int beyond the range of a double raises
\* OverflowError, None and containers raise TypeError
float_of(value) ==
    CASE value.t = "int" ->
            IF value = HugeInt THEN Raises("OverflowError") ELSE Float(Tenths(value.s))
      [] value.t = "float" -> Float(Tenths(value.s))
      [] value.t = "bool" -> IF value.s = <<"true">> THEN Float(10) ELSE Float(0)
      [] value.t = "str" -> float_of_str(value.s)
      [] OTHER -> Raises("TypeError")

\* str(value)
py_str(value) ==
    CASE value.t \in {"str", "int", "float"} -> value.s
      [] value.t = "bool" ->
            IF value.s = <<"true">> THEN <<"T", "r", "u", "e">>
            ELSE <<"F", "a", "l", "s", "e">>
      [] value.t = "null" -> <<"N", "o", "n", "e">>
      [] value.t = "dict" -> <<"{", "}">>
      [] OTHER -> <<"[", "]">>

\* needle in hay
IsSubstring(needle, hay) ==
    \E i \in 0..Len(hay) :
        i + Len(needle) <= Len(hay) /\ SubSeq(hay, i + 1, i + Len(needle)) = needle

Returns(b) == [raised |-> "none", value |-> b]

\* the try blocks catch ValueError and TypeError only
compare_floats(a, b, op) ==
    IF a.err \in {"ValueError", "TypeError"} THEN Returns(FALSE)
    ELSE IF a.err # "none" THEN [raised |-> a.err, value |-> FALSE]
    ELSE IF b.err \in {"ValueError", "TypeError"} THEN Returns(FALSE)
    ELSE IF b.err # "none" THEN [raised |-> b.err, value |-> FALSE]
    ELSE IF a.nan \/ b.nan THEN Returns(FALSE)
    ELSE Returns(CASE op = "GT"  -> a.n > b.n
                   [] op = "LT"  -> a.n < b.n
                   [] op = "GTE" -> a.n >= b.n
                   [] op = "LTE" -> a.n <= b.n)

apply_filter_condition(value, condition) ==
    LET attr_value == IF value.t \in {"str", "int", "float", "bool"}
                      THEN LowerStr(py_str(value))
                      ELSE py_str(value)
        filter_value == LowerStr(condition.value)
    IN CASE condition.condition = "EQ" -> Returns(attr_value = filter_value)
         [] condition.condition = "NEQ" -> Returns(attr_value # filter_value)
         [] condition.condition = "Contains" ->
                Returns(IsSubstring(filter_value, attr_value))
         [] condition.condition = "NotContains" ->
                Returns(~IsSubstring(filter_value, attr_value))
         [] condition.condition \in {"GT", "LT", "GTE", "LTE"} ->
                compare_floats(float_of(value), float_of_str(condition.value),
                               condition.condition)
         [] OTHER -> Returns(FALSE)

AttributeValues ==
    { JInt(<<"5">>), JInt(<<"1", "0">>), JInt(<<"-", "3">>), HugeInt,
      JFloat(<<"7", ".", "5">>),
      JStr(<<"5">>), JStr(<<"a", "b", "c">>), JStr(<<"A", "B", "C">>),
      JStr(<<" ", "5", " ">>), JStr(<<"n", "a", "n">>), JStr(<<>>),
      JBool(<<"true">>), JBool(<<"false">>), JNull, JDict(<<>>), JList(<<>>) }

KnownConditions == {"EQ", "NEQ", "Contains", "NotContains", "GT", "LT", "GTE", "LTE"}
ConditionNames == KnownConditions \cup {"Between", "gt"}

ConditionValues ==
    { <<"5">>, <<"3">>, <<"1", "0">>, <<"a", "b", "c">>, <<"B">>, <<>>,
      <<" ", "5", " ">>, <<"n", "a", "n">>, <<"t", "r", "u", "e">> }

ApplyInit ==
    /\ args \in [value : AttributeValues,
                 condition : [attribute : {kA}, condition : ConditionNames,
                              value : ConditionValues]]
    /\ ret = NoValue
    /\ cpc = "start"
    /\ EarlyIdle
    /\ RestIdle

ApplyFilterCondition ==
    /\ cpc = "start"
    /\ ret' = apply_filter_condition(args.value, args.condition)
    /\ cpc' = "done"
    /\ UNCHANGED <<args, earlyVars, restVars>>

ApplyNext == ApplyFilterCondition

SpecApply == ApplyInit /\ [][ApplyNext]_vars

\* the value is a number, or a string that float() reads as one
IsNumeric(value) ==
    \/ value.t \in {"int", "float", "bool"}
    \/ value.t = "str" /\ float_of_str(value.s).err = "none"

(***************************************************************************)
(* C11: apply_filter_condition never raises; for GT, LT, GTE and LTE it    *)
(* returns false whenever the attribute value or the comparison value is   *)
(* not numeric; for a condition outside the eight known ones it returns    *)
(* false.                                                                  *)
(***************************************************************************)
C11_NeverRaises ==
    cpc = "done" =>
        /\ ret.raised = "none"
        /\ (/\ args.condition.condition \in {"GT", "LT", "GTE", "LTE"}
            /\ \/ ~IsNumeric(args.value)
               \/ float_of_str(args.condition.value).err # "none")
           => ret.value = FALSE
        /\ args.condition.condition \notin KnownConditions => ret.value = FALSE

(***************************************************************************)
(* The requests generated by one call of generate-filtered                 *)
(* (lines 1295-1436), for a request found in the collection.               *)
(***************************************************************************)
GenerateInit ==
    /\ args \in [original_request : {fGet, fPut},
                 request : { Payload(b, c, s, g, f) :
                               b \in ResponseBodies, c \in CustomAttributes,
                               s \in SelectedConditions, g \in BOOLEAN,
                               f \in Filters }]
    /\ ret = NoValue
    /\ cpc = "start"
    /\ EarlyIdle
    /\ RestIdle

GenerateRequests ==
    /\ cpc = "start"
    /\ ret' = generate_requests(args.original_request, args.request.response_body,
                                args.request.custom_attributes,
                                args.request.selected_conditions,
                                args.request.generate_all_conditions,
                                args.request.filters)
    /\ cpc' = "done"
    /\ UNCHANGED <<args, earlyVars, restVars>>

GenerateNext == GenerateRequests

SpecGenerate == GenerateInit /\ [][GenerateNext]_vars

\* the conditions the claim expects for an attribute
ExpectedConditions(attribute, selected_conditions) ==
    IF Has(JDict(selected_conditions), attribute.k)
    THEN Get(JDict(selected_conditions), attribute.k)
    ELSE get_conditions_for_type(attribute.v.type)

\* one request per (attribute, condition) pair, attribute by attribute
RECURSIVE ExpectedRequests(_, _, _)
ExpectedRequests(original_request, schema_attributes, selected_conditions) ==
    IF schema_attributes = <<>> THEN <<>>
    ELSE LET conditions == ExpectedConditions(Head(schema_attributes), selected_conditions)
         IN [c \in DOMAIN conditions |->
                [original_request EXCEPT
                    !.name = original_request.name \o <<"_">>
                               \o Head(schema_attributes).k \o <<"_">>
                               \o ReplaceTok(conditions[c], " ", "_")]]
            \o ExpectedRequests(original_request, Tail(schema_attributes),
                                selected_conditions)

(***************************************************************************)
(* C12: with generate_all_conditions set, generate-filtered completes and  *)
(* generates exactly one request per (attribute, condition) pair: for an   *)
(* attribute without an entry in selected_conditions the conditions of its *)
(* data type, for an attribute with an entry the selected conditions.      *)
(***************************************************************************)
C12_AllConditionsGenerated ==
    (cpc = "done" /\ args.request.generate_all_conditions) =>
        /\ ~ret.raised
        /\ ret.requests =
              ExpectedRequests(args.original_request,
                               resolve_schema_attributes(
                                   args.request.response_body,
                                   args.request.custom_attributes),
                               args.request.selected_conditions)

(***************************************************************************)
(* generate_request_from_attribute of collections.py: the query parameters *)
(* and the body of the generated request (lines 859-1000).                 *)
(*   A request body is [present, raw]: raw is the value json.loads gives   *)
(*   for body["raw"], Unparsable when json.loads raises, NoBody when       *)
(*   "raw" is missing or empty.  json.dumps writes that value back.        *)
(***************************************************************************)
Unparsable == [t |-> "invalid", s |-> <<>>, kv |-> <<>>, el |-> <<>>]

RequestBody(present, raw) == [present |-> present, raw |-> raw]

Mapping(enabled, mode, source, value) ==
    [enabled |-> enabled, mode |-> mode, source |-> source, value |-> value]

kValue   == <<"value">>
kDefault == <<"default">>

\* attr_data.get("value"), then attr_data.get("default", ""), then ""
mapped_response_value(response_attributes, source) ==
    LET attr_data == GetOr(JDict(response_attributes), source, JDict(<<>>))
        first == GetOr(attr_data, kValue, JNull)
        second == IF first = JNull THEN GetOr(attr_data, kDefault, JStr(<<>>)) ELSE first
    IN IF second = JNull THEN JStr(<<>>) ELSE second

\* object_type or "Object"
object_type_or_default(object_type) ==
    IF object_type = <<>> THEN <<"Object">> ELSE object_type

\* lines 866-902: request_body_data from the user-defined mappings
RECURSIVE mapped_body_data(_, _, _, _, _, _, _)
mapped_body_data(mappings, response_attributes, attribute_name, data_type, condition, object_type, acc) ==
    IF mappings = <<>> THEN acc
    ELSE LET request_field == Head(mappings).k
             mapping == Head(mappings).v
             next ==
                 IF ~mapping.enabled THEN acc
                 ELSE IF /\ mapping.mode = "response"
                         /\ mapping.source # <<>>
                         /\ response_attributes # <<>>
                 THEN Put(JDict(acc), request_field,
                          mapped_response_value(response_attributes, mapping.source)).kv
                 ELSE IF mapping.mode = "manual"
                 THEN Put(JDict(acc), request_field, mapping.value).kv
                 ELSE IF mapping.mode = "special" THEN
                      CASE mapping.source = <<"attributeName">> ->
                               Put(JDict(acc), request_field, JStr(attribute_name)).kv
                        [] mapping.source = <<"objectType">> ->
                               Put(JDict(acc), request_field,
                                   JStr(object_type_or_default(object_type))).kv
                        [] mapping.source = <<"dataType">> ->
                               Put(JDict(acc), request_field, JStr(data_type)).kv
                        [] mapping.source = <<"condition">> ->
                               Put(JDict(acc), request_field, JStr(condition)).kv
                        [] mapping.source = <<"attributeValue">> ->
                               Put(JDict(acc), request_field,
                                   JStr(<<"{{attributeValue}}">>)).kv
                        [] OTHER -> acc
                 ELSE acc
         IN mapped_body_data(Tail(mappings), response_attributes, attribute_name,
                             data_type, condition, object_type, next)

\* lines 903-911: the hardcoded fields
default_body_data(attribute_name, data_type, condition, object_type) ==
    << Pair(<<"attributeName">>, JStr(attribute_name)),
       Pair(<<"objectType">>, JStr(object_type_or_default(object_type))),
       Pair(<<"dataType">>, JStr(data_type)),
       Pair(<<"condition">>, JStr(condition)),
       Pair(<<"attributeValue">>, JStr(<<"{{attributeValue}}">>)) >>

\* lines 918-927: a query parameter of the key is updated, else one is added
RECURSIVE set_query_params(_, _)
set_query_params(query, data) ==
    IF data = <<>> THEN query
    ELSE LET key == Head(data).k
             value == py_str(Head(data).v)
             next ==
                 IF \E i \in DOMAIN query : query[i].key = key
                 THEN LET i == CHOOSE j \in DOMAIN query :
                                  /\ query[j].key = key
                                  /\ \A h \in 1..(j - 1) : query[h].key # key
                      IN [query EXCEPT ![i].value = value]
                 ELSE Append(query, [key |-> key, value |-> value])
         IN set_query_params(next, Tail(data))

\* lines 953-961: the walk of a dotted key, which makes an object of every
\* missing or non-object value on its way
RECURSIVE set_dotted(_, _, _)
set_dotted(current, parts, value) ==
    IF Len(parts) = 1 THEN Put(current, parts[1], value)
    ELSE LET part == parts[1]
             inner == IF Has(current, part) /\ Get(current, part).t = "dict"
                      THEN Get(current, part)
                      ELSE JDict(<<>>)
         IN Put(current, part, set_dotted(inner, Tail(parts), value))

\* the existing fields are dropped: the body is the written fields only
merge_body_replacing(existing_body, data) == JDict(data)

\* lines 949-963: merged_body = {**existing_body}, then the mapped fields
RECURSIVE merge_body(_, _)
merge_body(existing_body, data) ==
    IF data = <<>> THEN existing_body
    ELSE LET key == Head(data).k
             value == Head(data).v
             next == IF \E i \in DOMAIN key : key[i] = "."
                     THEN set_dotted(existing_body, SplitDot(key), value)
                     ELSE Put(existing_body, key, value)
         IN merge_body(next, Tail(data))

Generated(raised, query, body) == [raised |-> raised, query |-> query, body |-> body]

\* lines 859-1000
generated_query_and_body(method, query, body, request_body_mappings, response_attributes, attribute_name, data_type, condition, object_type) ==
    LET mapped == request_body_mappings # <<>>
        request_body_data ==
            IF mapped
            THEN mapped_body_data(request_body_mappings, response_attributes,
                                  attribute_name, data_type, condition,
                                  object_type, <<>>)
            ELSE default_body_data(attribute_name, data_type, condition, object_type)
        raw == IF body.present THEN body.raw ELSE JDict(<<>>)
        existing_body == IF raw.t \in {"invalid", "none"} THEN JDict(<<>>) ELSE raw
    IN IF Upper(method) \in {"GET", "HEAD", "DELETE"}
       THEN Generated("none", set_query_params(query, request_body_data), body)
       ELSE IF ~mapped
       THEN Generated("none", query, RequestBody(TRUE, JDict(request_body_data)))
       ELSE IF existing_body.t # "dict"     \* {**existing_body} of a non-mapping
       THEN Generated("TypeError", query, body)
       ELSE Generated("none", query,
                      RequestBody(TRUE, merge_body(existing_body, request_body_data)))

kUser == <<"user">>
kAge  == <<"age">>
pathUserName == <<"user", ".", "name">>

ExistingBodies ==
    { RequestBody(FALSE, NoBody),
      RequestBody(TRUE, NoBody),
      RequestBody(TRUE, Unparsable),
      RequestBody(TRUE, JDict(<<>>)),
      RequestBody(TRUE, JDict(<<Pair(kA, n1)>>)),
      RequestBody(TRUE, JDict(<<Pair(kUser, JDict(<<Pair(kAge, n1)>>)), Pair(kA, n1)>>)),
      RequestBody(TRUE, JDict(<<Pair(kUser, JList(<<JDict(<<Pair(kAge, n1)>>)>>))>>)),
      RequestBody(TRUE, JDict(<<Pair(kUser, sX), Pair(kC, sX)>>)),
      RequestBody(TRUE, JDict(<<Pair(<<"condition">>, sX), Pair(kC, sX)>>)),
      RequestBody(TRUE, JList(<<n1>>)) }

MappingEntries ==
    { Pair(kA, Mapping(TRUE, "manual", <<>>, sX)),
      Pair(kA, Mapping(FALSE, "manual", <<>>, sX)),
      Pair(kC, Mapping(TRUE, "none", <<>>, sX)),
      Pair(kC, Mapping(TRUE, "response", kB, JStr(<<>>))),
      Pair(kC, Mapping(TRUE, "response", kD, JStr(<<>>))),
      Pair(kD, Mapping(TRUE, "special", <<"condition">>, JStr(<<>>))),
      Pair(kD, Mapping(TRUE, "special", <<"objectType">>, JStr(<<>>))),
      Pair(pathUserName, Mapping(TRUE, "manual", <<>>, sX)),
      Pair(kUser, Mapping(TRUE, "special", <<"attributeName">>, JStr(<<>>))) }

\* dicts of at most two mappings (a dict has one entry per key)
RequestBodyMappings ==
    {<<>>} \cup {<<e>> : e \in MappingEntries}
    \cup {p \in {<<e, f>> : e \in MappingEntries, f \in MappingEntries} :
             p[1].k # p[2].k}

ResponseAttributeDicts ==
    { <<>>,
      <<Pair(kB, JDict(<<Pair(kValue, n1)>>)),
        Pair(kD, JDict(<<Pair(kDefault, sX)>>))>> }

BodyInit ==
    /\ args \in [method : {"POST", "put", "GET"},
                 query : {<<>>, <<[key |-> kA, value |-> <<"0">>]>>},
                 body : ExistingBodies,
                 request_body_mappings : RequestBodyMappings,
                 response_attributes : ResponseAttributeDicts,
                 object_type : {<<>>, <<"Portfolio">>}]
    /\ ret = NoValue
    /\ cpc = "start"
    /\ EarlyIdle
    /\ RestIdle

GenerateQueryAndBody ==
    /\ cpc = "start"
    /\ ret' = generated_query_and_body(args.method, args.query, args.body,
                                       args.request_body_mappings,
                                       args.response_attributes,
                                       kA, <<"number">>, cEQ, args.object_type)
    /\ cpc' = "done"
    /\ UNCHANGED <<args, earlyVars, restVars>>

BodyNext == GenerateQueryAndBody

SpecBody == BodyInit /\ [][BodyNext]_vars

(***************************************************************************)
(* Vocabulary of the body claims of generate_request_from_attribute.       *)
(***************************************************************************)
\* the mapping writes its field
Effective(mapping, response_attributes) ==
    /\ mapping.enabled
    /\ \/ mapping.mode = "manual"
       \/ /\ mapping.mode = "response"
          /\ mapping.source # <<>>
          /\ response_attributes # <<>>
       \/ /\ mapping.mode = "special"
          /\ mapping.source \in {<<"attributeName">>, <<"objectType">>, <<"dataType">>,
                                 <<"condition">>, <<"attributeValue">>}

DefaultFields ==
    {<<"attributeName">>, <<"objectType">>, <<"dataType">>, <<"condition">>,
     <<"attributeValue">>}

\* the fields being written by the call
WrittenFields ==
    IF args.request_body_mappings = <<>> THEN DefaultFields
    ELSE { args.request_body_mappings[i].k :
             i \in { j \in DOMAIN args.request_body_mappings :
                       Effective(args.request_body_mappings[j].v,
                                 args.response_attributes) } }

\* the location a dotted field names
KeyChain(field) == [i \in DOMAIN SplitDot(field) |-> KeyStep(SplitDot(field)[i])]

IsPrefix(p, q) == Len(p) <= Len(q) /\ SubSeq(q, 1, Len(p)) = p

\* the location is on the way to a written field, or at or below one
BeingWritten(c) ==
    \E w \in WrittenFields : IsPrefix(c, KeyChain(w)) \/ IsPrefix(KeyChain(w), c)

\* the location is at or below a value that is not an object and stands on
\* the way of a written dotted field
BelowReplacedValue(existing, c) ==
    \E w \in WrittenFields :
        \E n \in 1..(Len(KeyChain(w)) - 1) :
            LET q == SubSeq(KeyChain(w), 1, n) IN
            /\ q \in Locs(existing)
            /\ NodeAt(existing, q).t # "dict"
            /\ IsPrefix(q, c)

Kept(existing, result, c) == c \in Locs(result) /\ NodeAt(result, c) = NodeAt(existing, c)

BodyWritten ==
    /\ cpc = "done"
    /\ Upper(args.method) \notin {"GET", "HEAD", "DELETE"}

(***************************************************************************)
(* C13 as claimed: for a request that is not GET, HEAD or DELETE and has a *)
(* JSON body, the generated request keeps every field of the existing body *)
(* that is not one of the fields being written, with request_body_mappings *)
(* and without them.                                                       *)
(***************************************************************************)
C13_ExistingFieldsKept ==
    (BodyWritten /\ args.body.present /\ args.body.raw.t = "dict") =>
        /\ ret.raised = "none"
        /\ \A c \in Locs(args.body.raw) :
              ~BeingWritten(c) => Kept(args.body.raw, ret.body.raw, c)

(***************************************************************************)
(* C13 as amended: for a request that is not GET, HEAD or DELETE, when     *)
(* request_body_mappings are supplied and the existing body is a JSON      *)
(* object, the generated body keeps every field of the existing body that  *)
(* is not being written, except what lies at or below a non-object value   *)
(* on the way of a written dotted field (that value becomes an object),    *)
(* and holds every written field that does not lie below another written   *)
(* field; when no request_body_mappings are                                *)
(* supplied the body is replaced by the five default fields and no         *)
(* existing field is kept; the written fields alone make the body when     *)
(* there is no body or it has no parsable raw text.                        *)
(***************************************************************************)
C13_MappedFieldsMerged ==
    BodyWritten =>
        /\ (args.request_body_mappings # <<>> /\ args.body.present
                /\ args.body.raw.t = "dict") =>
              /\ ret.raised = "none"
              /\ \A c \in Locs(args.body.raw) :
                    (~BeingWritten(c) /\ ~BelowReplacedValue(args.body.raw, c))
                       => Kept(args.body.raw, ret.body.raw, c)
              /\ \A w \in WrittenFields :
                    (\A v \in WrittenFields \ {w} : ~IsPrefix(KeyChain(v), KeyChain(w)))
                       => KeyChain(w) \in Locs(ret.body.raw)
        /\ args.request_body_mappings = <<>> =>
              /\ ret.raised = "none"
              /\ ret.body.present
              /\ ret.body.raw.t = "dict"
              /\ {ret.body.raw.kv[i].k : i \in DOMAIN ret.body.raw.kv} = DefaultFields
              /\ Len(ret.body.raw.kv) = Cardinality(DefaultFields)
        /\ (args.request_body_mappings # <<>>
                /\ (~args.body.present \/ args.body.raw.t \in {"none", "invalid"})) =>
              /\ ret.raised = "none"
              /\ \A i \in DOMAIN ret.body.raw.kv :
                    \E w \in WrittenFields : KeyChain(w)[1].k = ret.body.raw.kv[i].k

\* a mapped dotted field written into an object of the body, beside a field
\* of that object and a top-level field that are kept
C13_Witness ==
    /\ BodyWritten
    /\ args.request_body_mappings # <<>>
    /\ pathUserName \in WrittenFields
    /\ <<KeyStep(kUser), KeyStep(kAge)>> \in Locs(args.body.raw)
    /\ <<KeyStep(kUser), KeyStep(kAge)>> \in Locs(ret.body.raw)
    /\ <<KeyStep(kUser), KeyStep(kName)>> \in Locs(ret.body.raw)
    /\ <<KeyStep(kA)>> \in Locs(ret.body.raw)

(***************************************************************************)
(* The collections directory: one collection file per collection id, and   *)
(* the handlers of collections.py and conversions.py that write it.        *)
(*                                                                         *)
(* A stored document is a record                                           *)
(*   info_name        info.name (<<>> when info has no name)               *)
(*   info_postman_id  TRUE when info has a _postman_id                     *)
(*   variable         "list", "other" (not a list) or "absent"             *)
(*   item             the item tree                                        *)
(* The body of create-collection and update-collection is a record         *)
(*   keys      the top-level keys it has, of "info" and "item"             *)
(*   document  its content                                                 *)
(***************************************************************************)
MaxRequests == 3    \* number of requests received by the server

Document(info_name, info_postman_id, variable_field, item) ==
    [item |-> item, info_postman_id |-> info_postman_id,
     variable |-> variable_field, info_name |-> info_name]

\* open(file, 'w') + json.dump: the file of the id holds the document
WriteFile(dir, id, document) ==
    [i \in DOMAIN dir \cup {id} |-> IF i = id THEN document ELSE dir[i]]

\* re.sub(r'[<>:"|?*\x00-\x1f/\\]', '', collection_id)
RECURSIVE path_safe(_)
path_safe(id) ==
    IF id = <<>> THEN <<>>
    ELSE IF Head(id) \in {"/", "<", ">", ":", "|", "?", "*"}
    THEN path_safe(Tail(id))
    ELSE <<Head(id)>> \o path_safe(Tail(id))

\* str.lower() of a name, token by token
LowerName(tok) ==
    CASE tok = "Pets"       -> "pets"
      [] tok = "All"        -> "all"
      [] tok = "Copy"       -> "copy"
      [] tok = "New"        -> "new"
      [] tok = "Collection" -> "collection"
      [] OTHER              -> Lower(tok)

\* .replace(" ", "-").replace("_", "-")
Dashed(tok) == IF tok \in {" ", "_"} THEN "-" ELSE tok

\* re.sub(r'[^\w\s-]', '', s): the tokens that are neither word characters,
\* white space nor "-" are dropped
Punctuation == {"(", ")", "!", "/", "."}

RECURSIVE DropPunctuation(_)
DropPunctuation(s) ==
    IF s = <<>> THEN <<>>
    ELSE IF Head(s) \in Punctuation THEN DropPunctuation(Tail(s))
    ELSE <<Head(s)>> \o DropPunctuation(Tail(s))

\* re.sub(r'[-\s]+', '-', s): one "-" for every run of "-" and white space
RECURSIVE Collapse(_)
Collapse(s) ==
    IF s = <<>> THEN <<>>
    ELSE IF Head(s) \in {"-", " "}
    THEN IF Tail(s) # <<>> /\ Head(Tail(s)) \in {"-", " "}
         THEN Collapse(Tail(s))
         ELSE <<"-">> \o Collapse(Tail(s))
    ELSE <<Head(s)>> \o Collapse(Tail(s))

\* .strip('-')
RECURSIVE StripDashes(_)
StripDashes(s) ==
    IF s = <<>> THEN <<>>
    ELSE IF Head(s) = "-" THEN StripDashes(Tail(s))
    ELSE IF s[Len(s)] = "-" THEN StripDashes(SubSeq(s, 1, Len(s) - 1))
    ELSE s

\* lines 410-416 of create_collection (the same lines are in clone_collection
\* and merge_collections)
sanitized_name(collection_name) ==
    StripDashes(Collapse(DropPunctuation(
        [i \in DOMAIN collection_name |-> Dashed(LowerName(collection_name[i]))])))

\* what a handler does after its checks: the response status and, when it
\* writes, the file and the document; `read` is the document it loaded and
\* `change` the name of the item it adds to it
Outcome(status, writes, file, document, read, change) ==
    [status |-> status, document |-> document, writes |-> writes, file |-> file,
     read |-> read, change |-> change]

NoDocument == Document(<<>>, FALSE, "absent", <<>>)

Rejected(status) == Outcome(status, FALSE, <<>>, NoDocument, NoDocument, <<>>)

CollectionBody(keys, document) == [document |-> document, keys |-> keys]

\* POST "" (lines 396-431)
create_collection(dir, collection) ==
    IF collection.keys = {} THEN Rejected(400)
    ELSE IF "info" \notin collection.keys \/ "item" \notin collection.keys
    THEN Rejected(400)
    ELSE LET collection_name ==
                 IF collection.document.info_name = <<>>
                 THEN <<"New", " ", "Collection">>
                 ELSE collection.document.info_name
         IN Outcome(200, TRUE, sanitized_name(collection_name),
                    collection.document, NoDocument, <<>>)

\* the body is written before its structure is validated
update_collection_unchecked(dir, collection_id, collection) ==
    IF path_safe(collection_id) = <<>> THEN Rejected(400)
    ELSE IF path_safe(collection_id) \notin DOMAIN dir THEN Rejected(404)
    ELSE Outcome(IF collection.keys = {"info", "item"} THEN 200 ELSE 400, TRUE,
                 path_safe(collection_id), collection.document, NoDocument, <<>>)

\* PUT "/{collection_id}" (lines 565-604)
update_collection(dir, collection_id, collection) ==
    IF path_safe(collection_id) = <<>> THEN Rejected(400)
    ELSE IF path_safe(collection_id) \notin DOMAIN dir THEN Rejected(404)
    ELSE IF collection.keys = {} THEN Rejected(400)
    ELSE IF "info" \notin collection.keys \/ "item" \notin collection.keys
    THEN Rejected(400)
    ELSE Outcome(200, TRUE, path_safe(collection_id), collection.document,
                 NoDocument, <<>>)

\* f" (Copy {timestamp})"
CopySuffix(timestamp) == <<" ", "(", "Copy", " ", timestamp, ")">>

\* POST "/{collection_id}/clone" (lines 434-491)
clone_collection(dir, collection_id, timestamp) ==
    IF path_safe(collection_id) = <<>> THEN Rejected(400)
    ELSE IF path_safe(collection_id) \notin DOMAIN dir THEN Rejected(404)
    ELSE LET collection == dir[path_safe(collection_id)]
             original_name == IF collection.info_name = <<>>
                              THEN path_safe(collection_id)
                              ELSE collection.info_name
             new_name == original_name \o CopySuffix(timestamp)
         IN Outcome(200, TRUE, sanitized_name(new_name),
                    [collection EXCEPT !.info_name = new_name], collection, <<>>)

\* find_and_clone_request of clone_request (lines 522-543): folders are
\* entered, a request matches by its name
RECURSIVE find_and_clone_request(_, _, _)
find_and_clone_request(items, target_id, timestamp) ==
    IF items = <<>> THEN [found |-> FALSE, request |-> Other(<<>>, "")]
    ELSE LET item == Head(items)
             below == find_and_clone_request(item.item, target_id, timestamp)
         IN IF item.kind = "folder" /\ below.found THEN below
            ELSE IF item.kind = "request" /\ item.name = target_id
            THEN [found |-> TRUE,
                  request |-> [item EXCEPT !.name = item.name \o CopySuffix(timestamp)]]
            ELSE find_and_clone_request(Tail(items), target_id, timestamp)

\* POST "/{collection_id}/requests/{request_id}/clone" (lines 494-562)
clone_request(dir, collection_id, request_id, timestamp) ==
    IF path_safe(collection_id) = <<>> \/ path_safe(request_id) = <<>>
    THEN Rejected(400)
    ELSE IF path_safe(collection_id) \notin DOMAIN dir THEN Rejected(404)
    ELSE LET collection == dir[path_safe(collection_id)]
             cloned == find_and_clone_request(collection.item, path_safe(request_id),
                                              timestamp)
         IN IF ~cloned.found THEN Rejected(404)
            ELSE Outcome(200, TRUE, path_safe(collection_id),
                         [collection EXCEPT !.item = Append(@, cloned.request)],
                         collection, cloned.request.name)

\* POST "/generate-filtered" (lines 1254-1540)
generate_filtered_collection(dir, collection_id, request_name, request_method, payload) ==
    IF collection_id \notin DOMAIN dir THEN Rejected(404)
    ELSE
    LET source == dir[collection_id]
        found == find_request_and_parent(source.item, request_name, request_method)
    IN
    IF ~found.found THEN Rejected(404)
    ELSE
    LET original_request == ItemAt(source.item, found.request_path)
        parent_items == ListAt(source.item, found.parent_path)
        generated == generate_requests(original_request, payload.response_body,
                                       payload.custom_attributes,
                                       payload.selected_conditions,
                                       payload.generate_all_conditions,
                                       payload.filters)
        folder_name == request_name \o sFiltering
        folder_index == find_folder_index(parent_items, folder_name)
        filtering_folder == Folder(folder_name, generated.requests, "")
    IN
    IF generated.raised THEN Rejected(500)
    ELSE IF generated.requests = <<>> THEN Rejected(400)
    ELSE Outcome(200, TRUE, collection_id,
                 [source EXCEPT
                     !.item = SetListAt(source.item, found.parent_path,
                                        put_folder(parent_items, folder_index,
                                                   filtering_folder)),
                     !.info_postman_id = TRUE,
                     !.variable = "list"],
                 source, folder_name)

\* is_injection_folder_name (lines 1549-1557)
is_injection_folder_name(folder_name) ==
    \E i \in 1..(Len(folder_name) - 1) :
        /\ Lower(folder_name[i]) \in {"xss-", "sql-", "html-"}
        /\ Lower(folder_name[i + 1]) = "injection"

\* a request copied out of a collection, with _source_collection and
\* _parent_folder (<<>> when the field is not set)
Extracted(item, collection_name, parent_folder_name) ==
    [source_collection |-> collection_name, item |-> item,
     parent_folder |-> parent_folder_name]

NothingExtracted == [requests |-> <<>>, injection_folders |-> <<>>]

\* extract_requests_from_collection (lines 1560-1621); injection_items is
\* its loop over the items of an injection folder
RECURSIVE extract_requests_from_collection(_, _, _)
RECURSIVE injection_items(_, _, _)
extract_requests_from_collection(items, collection_name, parent_folder_name) ==
    IF items = <<>> THEN NothingExtracted
    ELSE
    LET item == Head(items)
        here ==
            IF item.kind = "request"
            THEN [requests |-> <<Extracted(item, collection_name, parent_folder_name)>>,
                  injection_folders |-> <<>>]
            ELSE IF item.kind = "folder"
            THEN IF is_injection_folder_name(item.name)
                 THEN LET sub == injection_items(item.item, collection_name,
                                                 parent_folder_name)
                      IN [requests |-> <<>>,
                          injection_folders |->
                              sub.injection_folders \o
                              <<[source_collection |-> collection_name,
                                 name |-> item.name, item |-> sub.requests,
                                 parent_folder |-> parent_folder_name]>>]
                 ELSE extract_requests_from_collection(item.item, collection_name,
                                                       item.name)
            ELSE NothingExtracted
        rest == extract_requests_from_collection(Tail(items), collection_name,
                                                 parent_folder_name)
    IN [requests |-> here.requests \o rest.requests,
        injection_folders |-> here.injection_folders \o rest.injection_folders]

injection_items(sub_items, collection_name, parent_folder_name) ==
    IF sub_items = <<>> THEN NothingExtracted
    ELSE
    LET sub_item == Head(sub_items)
        here ==
            IF sub_item.kind = "request"
            THEN [requests |-> <<Extracted(sub_item, collection_name,
                                           parent_folder_name)>>,
                  injection_folders |-> <<>>]
            ELSE IF sub_item.kind = "folder"
            THEN extract_requests_from_collection(<<sub_item>>, collection_name,
                                                  parent_folder_name)
            ELSE NothingExtracted
        rest == injection_items(Tail(sub_items), collection_name, parent_folder_name)
    IN [requests |-> here.requests \o rest.requests,
        injection_folders |-> here.injection_folders \o rest.injection_folders]

\* group_requests_by_name (lines 1624-1646): the groups in insertion order
RECURSIVE group_requests_by_name(_, _)
group_requests_by_name(requests, grouped) ==
    IF requests = <<>> THEN grouped
    ELSE
    LET request == Head(requests)
        request_name ==
            IF request.parent_folder # <<>>
               /\ ~is_injection_folder_name(request.parent_folder)
            THEN request.parent_folder
            ELSE request.item.name
        next ==
            IF \E g \in DOMAIN grouped : grouped[g].k = request_name
            THEN [g \in DOMAIN grouped |->
                    IF grouped[g].k = request_name
                    THEN Pair(request_name, Append(grouped[g].v, request))
                    ELSE grouped[g]]
            ELSE Append(grouped, Pair(request_name, <<request>>))
    IN group_requests_by_name(Tail(requests), next)

\* handle_duplicate_requests (lines 1649-1682): seen is the sequence of the
\* keys name|METHOD met so far, a key once per request that had it
RECURSIVE handle_duplicate_requests(_, _)
handle_duplicate_requests(requests, seen) ==
    IF requests = <<>> THEN <<>>
    ELSE
    LET request == Head(requests)
        key == <<request.item.name, Upper(request.item.method)>>
        counter == Cardinality({s \in DOMAIN seen : seen[s] = key})
        new_name ==
            IF request.source_collection # <<>>
            THEN request.item.name \o <<" ", "(">> \o request.source_collection
                 \o <<")">>
            ELSE request.item.name \o <<" ", "(", "Copy", " ", ToString(counter), ")">>
        renamed ==
            IF counter > 0
            THEN [request EXCEPT !.item = [@ EXCEPT !.name = new_name]]
            ELSE request
    IN <<renamed>> \o handle_duplicate_requests(Tail(requests), Append(seen, key))

\* the injection folders of one request name, by folder name, in insertion
\* order (lines 1704-1717)
RECURSIVE request_injection_folders(_, _, _)
request_injection_folders(injection_folders, request_name, by_name) ==
    IF injection_folders = <<>> THEN by_name
    ELSE
    LET inj_folder == Head(injection_folders)
        clean_items == [i \in DOMAIN inj_folder.item |-> inj_folder.item[i].item]
        next ==
            IF inj_folder.parent_folder # request_name THEN by_name
            ELSE IF \E f \in DOMAIN by_name : by_name[f].k = inj_folder.name
            THEN [f \in DOMAIN by_name |->
                    IF by_name[f].k = inj_folder.name
                    THEN Pair(inj_folder.name, by_name[f].v \o clean_items)
                    ELSE by_name[f]]
            ELSE Append(by_name, Pair(inj_folder.name, clean_items))
    IN request_injection_folders(Tail(injection_folders), request_name, next)

RECURSIVE NonEmptyFolders(_)
NonEmptyFolders(by_name) ==
    IF by_name = <<>> THEN <<>>
    ELSE (IF Head(by_name).v # <<>>
          THEN <<Folder(Head(by_name).k, Head(by_name).v, "")>>
          ELSE <<>>) \o NonEmptyFolders(Tail(by_name))

\* build_folder_structure (lines 1685-1735)
build_folder_structure(grouped_requests, injection_folders) ==
    [g \in DOMAIN grouped_requests |->
        LET request_name == grouped_requests[g].k
            renamed_requests == handle_duplicate_requests(grouped_requests[g].v, <<>>)
        IN Folder(request_name,
                  [r \in DOMAIN renamed_requests |-> renamed_requests[r].item]
                  \o NonEmptyFolders(request_injection_folders(injection_folders,
                                                               request_name, <<>>)),
                  "")]

\* the first loop of merge_collections (lines 1760-1798): the ids without a
\* file are skipped
RECURSIVE load_all(_, _)
load_all(dir, collection_ids) ==
    IF collection_ids = <<>> THEN NothingExtracted
    ELSE
    LET collection_id == path_safe(Head(collection_ids))
        rest == load_all(dir, Tail(collection_ids))
    IN IF collection_id = <<>> \/ collection_id \notin DOMAIN dir THEN rest
       ELSE LET collection == dir[collection_id]
                collection_name == IF collection.info_name = <<>> THEN collection_id
                                   ELSE collection.info_name
                extracted == extract_requests_from_collection(collection.item,
                                                              collection_name, <<>>)
            IN [requests |-> extracted.requests \o rest.requests,
                injection_folders |->
                    extracted.injection_folders \o rest.injection_folders]

\* str.strip() is empty
IsBlank(s) == \A i \in DOMAIN s : s[i] = " "

\* POST "/merge" (lines 1738-1866)
merge_collections(dir, collection_ids, merged_collection_name) ==
    IF Len(collection_ids) < 2 THEN Rejected(400)
    ELSE IF IsBlank(merged_collection_name) THEN Rejected(400)
    ELSE LET all == load_all(dir, collection_ids) IN
         IF all.requests = <<>> THEN Rejected(400)
         ELSE Outcome(200, TRUE, sanitized_name(merged_collection_name),
                      Document(merged_collection_name, TRUE, "list",
                               build_folder_structure(
                                   group_requests_by_name(all.requests, <<>>),
                                   all.injection_folders)),
                      NoDocument, <<>>)

\* SwaggerParser.sanitize_name
sanitize_name(name) ==
    LET sanitized == StripDashes(Collapse(DropPunctuation(name)))
    IN [i \in DOMAIN sanitized |-> LowerName(sanitized[i])]

\* convert_swagger_to_postman, from builder.build() to the save (lines
\* 1243-1310): info gets a _postman_id when it has none, and the document is
\* written under the sanitized API name; the items stand for the converted
\* paths of the Swagger file
convert_swagger_to_postman(dir, api_name, converted_items) ==
    LET collection == Document(api_name, FALSE, "list", converted_items)
    IN Outcome(200, TRUE, sanitize_name(api_name),
               [collection EXCEPT !.info_postman_id = TRUE], NoDocument, <<>>)

(***************************************************************************)
(* The server.  Every handler of collections.py is an `async def` without  *)
(* an await: inside one server process (one event loop) a handler runs     *)
(* from its first line to its response before the next handler starts.     *)
(* Server processes over the same collections directory run side by side:  *)
(* a handler is then two steps, the one that loads the file, checks and    *)
(* builds the document, and the one that writes it.                        *)
(***************************************************************************)
Processes == {1, 2}

\* a handler with an await between its read and its write
handler_starts_any_time(in_hand) == TRUE

\* the event loop of a process starts a handler when no handler is running
handler_may_start(in_hand) == in_hand = <<>>

nPets == <<"Pets">>
nAll  == <<"All">>
idPets == <<"pets">>

Timestamps == {"1", "2"}

\* what conversion leaves in the collections directory
ConvertedTrees == { <<fGet, fPut>>, <<Folder(nGet, <<fGet, Folder(nInjF, <<oInj>>, "")>>, "")>> }

InitialDirs ==
    { <<>> } \cup
    { WriteFile(<<>>, idPets, Document(nPets, TRUE, "list", t)) : t \in ConvertedTrees }

CollectionIdsAsked == {idPets, <<"nope">>}

\* the bodies of create-collection and update-collection
CollectionBodies ==
    { CollectionBody({}, NoDocument),
      CollectionBody({"item"}, NoDocument),
      CollectionBody({"info", "item"}, Document(nPets, FALSE, "absent", <<fGet>>)),
      CollectionBody({"info", "item"}, Document(nPets, TRUE, "list", <<fPut>>)) }

StorePayloads ==
    { Payload(JDict(<<Pair(kA, n1)>>), <<>>, <<>>, FALSE, <<>>),
      Payload(JDict(<<Pair(kA, n1)>>), <<>>, <<Pair(kA, <<>>)>>, FALSE, <<>>),
      Payload(JDict(<<Pair(kA, n1)>>), <<>>, <<>>, TRUE, <<>>) }

StoreInit ==
    /\ collections_dir \in InitialDirs
    /\ server_processes \in {{1}, Processes}
    /\ handling = [p \in Processes |-> <<>>]
    /\ completed = <<>>
    /\ last_response = NoResponse
    /\ nrequests = 0
    /\ EarlyIdle
    /\ CallIdle
    /\ BuilderIdle
    /\ ServiceIdle

\* the first step of a handler in process p: a handler that does not write
\* responds, one that writes goes on to its write
Handle(p, op, outcome) ==
    /\ p \in server_processes
    /\ handler_may_start(handling[p])
    /\ nrequests < MaxRequests
    /\ nrequests' = nrequests + 1
    /\ IF outcome.writes
       THEN /\ handling' = [handling EXCEPT ![p] =
                               Append(@, [op |-> op, outcome |-> outcome,
                                          request |-> nrequests + 1,
                                          read_after |-> Len(completed)])]
            /\ UNCHANGED last_response
       ELSE /\ last_response' = [status |-> outcome.status, op |-> op,
                                 request |-> nrequests + 1, wrote |-> FALSE]
            /\ UNCHANGED handling
    /\ UNCHANGED <<collections_dir, server_processes, completed>>
    /\ UNCHANGED <<earlyVars, callVars, builderVars, serviceVars>>

\* the second step: open(file, 'w'), json.dump, and the response
WriteAndRespond(p) ==
    \E k \in DOMAIN handling[p] :
    /\ LET h == handling[p][k] IN
       /\ collections_dir' = WriteFile(collections_dir, h.outcome.file,
                                       h.outcome.document)
       /\ completed' = Append(completed,
                              [process |-> p, op |-> h.op, file |-> h.outcome.file,
                               read_after |-> h.read_after,
                               read |-> h.outcome.read,
                               wrote |-> h.outcome.document,
                               change |-> h.outcome.change])
       /\ last_response' = [status |-> h.outcome.status, op |-> h.op,
                            request |-> h.request, wrote |-> TRUE]
    /\ handling' = [handling EXCEPT ![p] = RemoveAt(@, k)]
    /\ UNCHANGED <<server_processes, nrequests>>
    /\ UNCHANGED <<earlyVars, callVars, builderVars, serviceVars>>

Convert(p) ==
    \E converted_items \in ConvertedTrees :
        Handle(p, "convert",
               convert_swagger_to_postman(collections_dir, nPets, converted_items))

CreateCollection(p) ==
    \E collection \in CollectionBodies :
        Handle(p, "create-collection", create_collection(collections_dir, collection))

UpdateCollection(p) ==
    \E collection_id \in CollectionIdsAsked \cup {<<"/">>},
       collection \in CollectionBodies :
        Handle(p, "update-collection",
               update_collection(collections_dir, collection_id, collection))

CloneCollection(p) ==
    \E collection_id \in CollectionIdsAsked, timestamp \in Timestamps :
        Handle(p, "clone-collection",
               clone_collection(collections_dir, collection_id, timestamp))

CloneRequest(p) ==
    \E collection_id \in CollectionIdsAsked, request_id \in {nGet, nPut, <<"/">>},
       timestamp \in Timestamps :
        Handle(p, "clone-request",
               clone_request(collections_dir, collection_id, request_id, timestamp))

GenerateFilteredCollection(p) ==
    \E collection_id \in CollectionIdsAsked, request_name \in {nGet, nPut, nH},
       payload \in StorePayloads :
        Handle(p, "generate-filtered",
               generate_filtered_collection(
                   collections_dir, collection_id, request_name,
                   IF request_name = nPut THEN "PUT" ELSE "GET", payload))

MergeCollections(p) ==
    \E collection_ids \in {<<idPets>>, <<idPets, idPets>>, <<idPets, <<"nope">>>>,
                           <<<<"nope">>, <<"/">>>>},
       merged_collection_name \in {nAll, <<" ">>} :
        Handle(p, "merge-collections",
               merge_collections(collections_dir, collection_ids,
                                 merged_collection_name))

StoreNext ==
    \E p \in Processes :
        \/ Convert(p)
        \/ CreateCollection(p)
        \/ UpdateCollection(p)
        \/ CloneCollection(p)
        \/ CloneRequest(p)
        \/ GenerateFilteredCollection(p)
        \/ MergeCollections(p)
        \/ WriteAndRespond(p)

SpecStore == StoreInit /\ [][StoreNext]_vars

(***************************************************************************)
(* Vocabulary of the store claims.                                         *)
(***************************************************************************)
\* an item of the name, at any depth of the tree
RECURSIVE HasItemNamed(_, _)
HasItemNamed(items, name) ==
    \E i \in DOMAIN items :
        items[i].name = name \/ HasItemNamed(items[i].item, name)

\* the operations that load a collection file, change the document and
\* write it back to the same file
ReadModifyWrite == {"generate-filtered", "clone-request"}

\* the writers i and j of `completed` loaded the same document of the same
\* file: j loaded it before i wrote
BothReadTheSame(i, j) ==
    /\ i < j
    /\ completed[i].op \in ReadModifyWrite
    /\ completed[j].op \in ReadModifyWrite
    /\ completed[i].file = completed[j].file
    /\ completed[j].read_after < i
    /\ completed[i].read = completed[j].read

\* i adds an item that neither the loaded document nor j's change has
AddsItsOwn(i, j) ==
    /\ completed[i].change # completed[j].change
    /\ ~HasItemNamed(completed[i].read.item, completed[i].change)

LastWriterOf(file, j) ==
    /\ completed[j].file = file
    /\ \A k \in DOMAIN completed : k > j => completed[k].file # file

C15_EveryDocumentHasPostmanId ==
    \A id \in DOMAIN collections_dir : collections_dir[id].info_postman_id

(***************************************************************************)
(* C16: when generate-filtered, clone-request or update-collection ends in *)
(* an error, the collections directory is what it was before the call: no  *)
(* file is written by a call that responds with an error.                  *)
(***************************************************************************)
ErrorResponse(response) ==
    /\ response.status >= 400
    /\ response.op \in {"generate-filtered", "clone-request", "update-collection"}

C16_ErrorsWriteNothing ==
    [][last_response' # last_response /\ ErrorResponse(last_response') =>
          /\ collections_dir' = collections_dir
          /\ ~last_response'.wrote]_vars

C16_Witness ==
    /\ last_response.status = 400
    /\ last_response.op = "update-collection"
    /\ idPets \in DOMAIN collections_dir
    /\ nrequests > 1

(***************************************************************************)
(* URL decomposition of PostmanCollectionBuilder.  A URL is a sequence of  *)
(* pieces: a {{name}} token of Postman, or a piece of literal text (a      *)
(* separator "/", "//", "?", "#", the scheme with its colon, or text       *)
(* without separators).  The text of a piece and a variable name are       *)
(* token sequences; a string of the result (a host, a path segment) is the *)
(* concatenation of the texts of its pieces.                               *)
(***************************************************************************)
MaxSegments == 2    \* most path segments of a URL

Var(var_name) == [var |-> TRUE, text |-> var_name]
Lit(text) == [var |-> FALSE, text |-> <<text>>]

\* the {name} of a path parameter in a Swagger path
Brace(param_name) == [var |-> FALSE, text |-> <<"{">> \o param_name \o <<"}">>]

\* the characters of a piece in the raw URL
Text(piece) == IF piece.var THEN <<"{{">> \o piece.text \o <<"}}">> ELSE piece.text

RECURSIVE Flat(_)
Flat(strings) == IF strings = <<>> THEN <<>> ELSE Head(strings) \o Flat(Tail(strings))

\* the string a sequence of pieces spells
Spell(pieces) == Flat([i \in DOMAIN pieces |-> Text(pieces[i])])

\* re.sub(r'\{\{[^}]+\}\}', 'placeholder', url)
sub_placeholder(url) ==
    [i \in DOMAIN url |-> IF url[i].var THEN Lit("placeholder") ELSE url[i]]

IsSep(piece, seps) == ~piece.var /\ piece.text[1] \in seps

\* index of the first piece that is one of the separators (Len + 1 for none)
FirstSep(pieces, seps) ==
    IF \E i \in DOMAIN pieces : IsSep(pieces[i], seps)
    THEN CHOOSE i \in DOMAIN pieces :
            /\ IsSep(pieces[i], seps)
            /\ \A j \in 1..(i - 1) : ~IsSep(pieces[j], seps)
    ELSE Len(pieces) + 1

From(pieces, i) == SubSeq(pieces, i, Len(pieces))

\* urllib.parse.urlparse: scheme, netloc and path of a URL
urlparse(url) ==
    LET has_scheme == url # <<>> /\ IsSep(url[1], {"https:", "http:"})
        after_scheme == IF has_scheme THEN Tail(url) ELSE url
        has_netloc == after_scheme # <<>> /\ IsSep(after_scheme[1], {"//"})
        after_slashes == IF has_netloc THEN Tail(after_scheme) ELSE after_scheme
        netloc_end == FirstSep(after_slashes, {"/", "?", "#"})
        rest == IF has_netloc THEN From(after_slashes, netloc_end) ELSE after_scheme
    IN [path |-> SubSeq(rest, 1, FirstSep(rest, {"?", "#"}) - 1),
        scheme |-> IF has_scheme THEN url[1].text ELSE <<>>,
        netloc |-> IF has_netloc THEN Spell(SubSeq(after_slashes, 1, netloc_end - 1))
                   ELSE <<>>]

\* str.strip('/') of a path
RECURSIVE strip_slashes(_)
strip_slashes(path) ==
    IF path = <<>> THEN <<>>
    ELSE IF IsSep(path[1], {"/", "//"}) THEN strip_slashes(Tail(path))
    ELSE IF IsSep(path[Len(path)], {"/", "//"})
    THEN strip_slashes(SubSeq(path, 1, Len(path) - 1))
    ELSE path

\* str.split('/') of a stripped path: the strings between the slashes
RECURSIVE split_slash(_)
split_slash(path) ==
    LET i == FirstSep(path, {"/", "//"})
        first == Spell(SubSeq(path, 1, i - 1))
    IN IF i > Len(path) THEN <<first>>
       ELSE IF path[i].text[1] = "//"
       THEN <<first, <<>>>> \o split_slash(From(path, i + 1))
       ELSE <<first>> \o split_slash(From(path, i + 1))

RECURSIVE SelectStrings(_, _)
SelectStrings(strings, dropped) ==
    IF strings = <<>> THEN <<>>
    ELSE (IF Head(strings) = dropped THEN <<>> ELSE <<Head(strings)>>)
         \o SelectStrings(Tail(strings), dropped)

\* [p for p in path.split('/') if p != 'placeholder']
filter_placeholder(parts) == SelectStrings(parts, <<"placeholder">>)

\* PostmanCollectionBuilder._parse_path
_parse_path(url) ==
    LET parsed == urlparse(sub_placeholder(url))
        path == strip_slashes(parsed.path)
    IN IF parsed.path # <<>> /\ path # <<>>
       THEN filter_placeholder(split_slash(path))
       ELSE <<>>

\* 'url' in var_name.lower()
ContainsUrl(var_name) == \E i \in DOMAIN var_name : Lower(var_name[i]) = "url"

\* var_name == 'baseUrl' or 'url' in var_name.lower()
is_host_variable(var_name) == var_name = <<"base", "Url">> \/ ContainsUrl(var_name)

\* PostmanCollectionBuilder._parse_host
_parse_host(url) ==
    IF url # <<>> /\ url[1].var /\ is_host_variable(url[1].text)
    THEN <<Text(url[1])>>
    ELSE LET parsed == urlparse(sub_placeholder(url))
         IN IF parsed.netloc # <<>> /\ parsed.netloc # <<"placeholder">>
            THEN <<parsed.netloc>>
            ELSE <<>>

\* full_url.replace("{name}", "{{name}}") of convert_swagger_to_postman for
\* a path parameter
replace_path_parameter(full_url, param_name) ==
    [i \in DOMAIN full_url |->
        IF full_url[i] = Brace(param_name) THEN Var(param_name) ELSE full_url[i]]

\* the "url" of the request item of add_request
request_url(url, params) ==
    [path |-> _parse_path(url), raw |-> Spell(url), query |-> params,
     host |-> _parse_host(url)]

(***************************************************************************)
(* add_request on the URLs of a conversion.                                *)
(***************************************************************************)
vBaseUrl == <<"base", "Url">>
vApiUrl  == <<"api", "Url">>
vHost    == <<"host">>
vId      == <<"id">>

UrlPrefixes ==
    { <<>>,
      <<Var(vBaseUrl)>>, <<Var(vApiUrl)>>, <<Var(vHost)>>, <<Var(vId)>>,
      <<Lit("https:"), Lit("//"), Lit("api.example.com")>>,
      <<Lit("https:"), Lit("//"), Var(vHost)>> }

UrlSegments ==
    { <<Lit("users")>>, <<Lit("placeholder")>>, <<Var(vId)>>, <<Brace(vId)>>,
      <<Lit("v"), Var(vId)>> }

RECURSIVE Slashed(_)
Slashed(segments) ==
    IF segments = <<>> THEN <<>>
    ELSE <<Lit("/")>> \o Head(segments) \o Slashed(Tail(segments))

UrlQueries == { <<>>, <<Lit("?"), Lit("q=1")>> }

Urls ==
    { prefix \o Slashed(segments) \o query :
        prefix \in UrlPrefixes, segments \in SeqUpTo(UrlSegments, MaxSegments),
        query \in UrlQueries }

UrlInit ==
    /\ args \in [url : Urls, path_parameters : {<<>>, <<vId>>}]
    /\ ret = NoValue
    /\ cpc = "start"
    /\ EarlyIdle
    /\ RestIdle

RECURSIVE replace_path_parameters(_, _)
replace_path_parameters(full_url, path_parameters) ==
    IF path_parameters = <<>> THEN full_url
    ELSE replace_path_parameters(replace_path_parameter(full_url, Head(path_parameters)),
                                 Tail(path_parameters))

\* the path parameters of the operation are rewritten, then
\* builder.add_request(name, method, full_url, ...)
AddRequest ==
    /\ cpc = "start"
    /\ LET full_url == replace_path_parameters(args.url, args.path_parameters)
       IN ret' = [full_url |-> full_url, url |-> request_url(full_url, <<>>)]
    /\ cpc' = "done"
    /\ UNCHANGED <<args, earlyVars, restVars>>

UrlNext == AddRequest

SpecUrl == UrlInit /\ [][UrlNext]_vars

\* the path of a raw URL: what follows the leading variable or the
\* authority, up to the query
RawPath(full_url) ==
    IF full_url # <<>> /\ full_url[1].var
    THEN urlparse(Tail(full_url)).path
    ELSE urlparse(full_url).path

\* its segments, as they are spelled in raw
RawSegments(full_url) ==
    IF strip_slashes(RawPath(full_url)) = <<>> THEN <<>>
    ELSE SelectStrings(split_slash(strip_slashes(RawPath(full_url))), <<>>)

\* the strings of a, in order, are among the strings of b
RECURSIVE IsSubsequence(_, _)
IsSubsequence(a, b) ==
    IF a = <<>> THEN TRUE
    ELSE IF b = <<>> THEN FALSE
    ELSE IF Head(a) = Head(b) THEN IsSubsequence(Tail(a), Tail(b))
    ELSE IsSubsequence(a, Tail(b))

(***************************************************************************)
(* C17: for every request item built by add_request or by conversion,      *)
(* every path segment of url.raw (a {{variable}} segment and a literal     *)
(* segment "placeholder" included) is in url.path, in the order of raw.    *)
(***************************************************************************)
C17_PathHoldsEverySegment ==
    cpc = "done" /\ "url" \in DOMAIN ret =>
        IsSubsequence(RawSegments(ret.full_url), ret.url.path)

(***************************************************************************)
(* C18: for every URL that begins with a {{var}} token, whatever the name  *)
(* var, _parse_host returns the one-element list ['{{var}}'].              *)
(***************************************************************************)
C18_LeadingVariableIsHost ==
    cpc = "done" /\ "url" \in DOMAIN ret /\ ret.full_url # <<>> =>
        (ret.full_url[1].var => ret.url.host = <<Text(ret.full_url[1])>>)

(***************************************************************************)
(* The variable list of one PostmanCollectionBuilder.                      *)
(***************************************************************************)
MaxVariableCalls == 3   \* number of add_variable / set_base_url calls

Variable(key, value, variable_type) ==
    [key |-> key, value |-> value, type |-> variable_type]

HasKey(variables, key) == \E i \in DOMAIN variables : variables[i].key = key

\* an existing entry is dropped and the new one goes to the end of the list
add_variable_moving_last(variables, key, value, variable_type) ==
    SelectSeq(variables, LAMBDA var : var.key # key)
    \o <<Variable(key, value, variable_type)>>

\* PostmanCollectionBuilder.add_variable
add_variable(variables, key, value, variable_type) ==
    IF HasKey(variables, key)
    THEN LET i == CHOOSE n \in DOMAIN variables :
                    /\ variables[n].key = key
                    /\ \A k \in 1..(n - 1) : variables[k].key # key
         IN [variables EXCEPT ![i] = Variable(key, value, variable_type)]
    ELSE Append(variables, Variable(key, value, variable_type))

\* '{{' in base_url
HasVariable(url) == \E i \in DOMAIN url : url[i].var

\* f"{parsed.scheme}://{parsed.netloc}" when the URL has a netloc, the whole
\* URL otherwise
domain_url(base_url) ==
    LET parsed == urlparse(base_url)
    IN IF parsed.netloc # <<>> THEN parsed.scheme \o <<"//">> \o parsed.netloc
       ELSE Spell(base_url)

\* PostmanCollectionBuilder.set_base_url
set_base_url(variables, base_url) ==
    IF HasVariable(base_url) THEN variables
    ELSE add_variable(variables, vBaseUrl, domain_url(base_url), "string")

VariableKeys == {vBaseUrl, <<"k">>}
VariableValues == {<<"x">>, <<"y">>}
VariableTypes == {"string", "secret"}

BaseUrls ==
    { <<Lit("https:"), Lit("//"), Lit("api.example.com")>>,
      <<Lit("https:"), Lit("//"), Lit("api.example.com"), Lit("/"), Lit("v1")>>,
      <<Lit("api.example.com"), Lit("/"), Lit("v1")>>,
      <<Var(vBaseUrl), Lit("/"), Lit("v1")>> }

BuilderInit ==
    /\ collection_variable = <<>>
    /\ variable_calls = <<>>
    /\ EarlyIdle
    /\ CallIdle
    /\ StoreIdle
    /\ ServiceIdle

\* a call, the entry it is for, and whether it sets the entry
VariableCall(op, key, value, variable_type, sets) ==
    [key |-> key, value |-> value, type |-> variable_type, op |-> op, sets |-> sets]

AddVariable(key, value, variable_type) ==
    /\ Len(variable_calls) < MaxVariableCalls
    /\ collection_variable' = add_variable(collection_variable, key, value, variable_type)
    /\ variable_calls' = Append(variable_calls,
                                VariableCall("add_variable", key, value,
                                             variable_type, TRUE))
    /\ UNCHANGED <<earlyVars, callVars, storeVars, serviceVars>>

SetBaseUrl(base_url) ==
    /\ Len(variable_calls) < MaxVariableCalls
    /\ collection_variable' = set_base_url(collection_variable, base_url)
    /\ variable_calls' = Append(variable_calls,
                                VariableCall("set_base_url", vBaseUrl,
                                             domain_url(base_url), "string",
                                             ~HasVariable(base_url)))
    /\ UNCHANGED <<earlyVars, callVars, storeVars, serviceVars>>

BuilderNext ==
    \/ \E key \in VariableKeys, value \in VariableValues,
          variable_type \in VariableTypes : AddVariable(key, value, variable_type)
    \/ \E base_url \in BaseUrls : SetBaseUrl(base_url)

SpecBuilder == BuilderInit /\ [][BuilderNext]_vars

\* the calls for a key, among the calls that satisfy Counts
CallsFor(key, Counts(_)) ==
    {n \in DOMAIN variable_calls : variable_calls[n].key = key /\ Counts(variable_calls[n])}

Max(S) == CHOOSE n \in S : \A k \in S : k <= n
Min(S) == CHOOSE n \in S : \A k \in S : n <= k

\* one entry per key that has a call; it has the value and type of the last
\* call for the key, and the entries are in the order of the first calls
UpsertByKey(Counts(_)) ==
    /\ \A i, j \in DOMAIN collection_variable :
          collection_variable[i].key = collection_variable[j].key => i = j
    /\ \A key \in VariableKeys :
          HasKey(collection_variable, key) <=> CallsFor(key, Counts) # {}
    /\ \A i \in DOMAIN collection_variable :
          LET calls == CallsFor(collection_variable[i].key, Counts)
              last == variable_calls[Max(calls)]
          IN /\ collection_variable[i].value = last.value
             /\ collection_variable[i].type = last.type
    /\ \A i, j \in DOMAIN collection_variable :
          i < j => Min(CallsFor(collection_variable[i].key, Counts))
                   < Min(CallsFor(collection_variable[j].key, Counts))

AnyCall(call) == TRUE
SettingCall(call) == call.sets

(***************************************************************************)
(* C19 as claimed: after any sequence of add_variable and set_base_url     *)
(* calls the list has at most one entry per key, with the value and type   *)
(* of the most recent call for that key (every set_base_url being a call   *)
(* for baseUrl), at the list position of the first call.                   *)
(***************************************************************************)
C19_LastCallWins == UpsertByKey(AnyCall)

(***************************************************************************)
(* C19 as amended: the same, where a set_base_url call whose argument      *)
(* holds a {{variable}} does not count: it leaves the list as it is.       *)
(***************************************************************************)
C19_LastSettingCallWins == UpsertByKey(SettingCall)

C19_Witness ==
    /\ Len(variable_calls) = 3
    /\ variable_calls[1].key = <<"k">>
    /\ variable_calls[2].op = "set_base_url" /\ variable_calls[2].sets
    /\ variable_calls[3].op = "add_variable" /\ variable_calls[3].key = <<"k">>
    /\ variable_calls[3].value # variable_calls[1].value
    /\ Len(collection_variable) = 2
    /\ collection_variable[1].key = <<"k">>

(***************************************************************************)
(* Example generation from a schema (generate_example_from_schema).        *)
(* A schema is a JSON dict; a value read from a YAML document may also be  *)
(* a datetime or a date, written here as a value of type "datetime" or     *)
(* "date" whose text is its ISO form.                                      *)
(***************************************************************************)
MaxProperties == 2   \* properties of an object schema among the inputs

kExample    == <<"example">>
kEnum       == <<"enum">>
kFormat     == <<"format">>
kProperties == <<"properties">>
kItems      == <<"items">>
kRef        == <<"$ref">>
kComponents == <<"components">>
kSchemas    == <<"schemas">>

JDateTime(s) == [t |-> "datetime", s |-> s, kv |-> <<>>, el |-> <<>>]
JDate(s)     == [t |-> "date", s |-> s, kv |-> <<>>, el |-> <<>>]

TypeName(name) == JStr(<<name>>)

\* not value
Falsy(value) ==
    \/ value.t = "null"
    \/ value.t = "bool" /\ value.s = <<"false">>
    \/ value.t = "int" /\ value.s = <<"0">>
    \/ value.t = "float" /\ value.s = <<"0", ".", "0">>
    \/ value.t = "str" /\ value.s = <<>>
    \/ value.t = "dict" /\ value.kv = <<>>
    \/ value.t = "list" /\ value.el = <<>>

\* d.get(key)
GetOrNone(d, k) == GetOr(d, k, JNull)

\* str(value) of a value that is not a datetime or a date
Str(value) ==
    CASE value.t = "str" -> value
      [] value.t \in {"int", "float"} -> JStr(value.s)
      [] value.t = "bool" ->
           JStr(IF value.s = <<"true">> THEN <<"True">> ELSE <<"False">>)
      [] OTHER -> JStr(<<"repr">>)

\* value.isoformat()
isoformat(value) == JStr(value.s)

\* datetime.now() and date.today(), read off the clock the call runs under
datetime_now == JDateTime(args.now)
date_today == JDate(<<Head(args.now)>>)

RefPrefix == "#/components/schemas/"

\* no reference is resolved
resolve_no_reference(swagger_data, ref) == JDict(<<>>)

\* resolve_schema_reference
resolve_schema_reference(swagger_data, ref) ==
    IF ref.s = <<>> \/ Head(ref.s) # RefPrefix THEN JDict(<<>>)
    ELSE LET schema_name == Tail(ref.s)
             components == GetOr(swagger_data, kComponents, JDict(<<>>))
             schemas == GetOr(components, kSchemas, JDict(<<>>))
         IN GetOr(schemas, schema_name, JDict(<<>>))

\* prop_name in required
InRequired(prop_name, required) ==
    \E i \in DOMAIN required.el : required.el[i] = JStr(prop_name)

\* f"{{{{{prop_name}}}}}"
Placeholder(prop_name) == JStr(<<"{{">> \o prop_name \o <<"}}">>)

\* the example or default of a property with a date or date-time format
FormattedValue(value, classes) ==
    IF value.t \in classes THEN isoformat(value) ELSE Str(value)

\* the example or default of any other property
PlainValue(value) ==
    IF value.t \in {"datetime", "date"} THEN isoformat(value) ELSE value

RecursionLimit == 6   \* frames a call may nest before Python raises RecursionError

\* the outcome of a call that raised RecursionError
RecursionError == [t |-> "raise", s |-> <<"RecursionError">>, kv |-> <<>>, el |-> <<>>]

\* no value is stored for the property
NotGenerated == [t |-> "skip", s |-> <<>>, kv |-> <<>>, el |-> <<>>]

\* [item_example] if item_example else [], an exception passing through
list_of_item_example(item_example) ==
    IF item_example = RecursionError THEN RecursionError
    ELSE IF ~Falsy(item_example) THEN JList(<<item_example>>) ELSE JList(<<>>)

RECURSIVE generate_example_in_frame(_, _, _)
RECURSIVE example_of_properties(_, _, _, _, _, _)

\* the loop over properties.items() of an object schema, from property i
example_of_properties(properties, i, required, swagger_data, example, frame) ==
    IF i > Len(properties) THEN example
    ELSE
      LET prop_name == properties[i].k
          given == properties[i].v
          prop_schema == IF Has(given, kRef)
                         THEN resolve_schema_reference(swagger_data, Get(given, kRef))
                         ELSE given
          prop_type == GetOr(prop_schema, kType, TypeName("string"))
          prop_format == GetOr(prop_schema, kFormat, JStr(<<>>))
          prop_example == GetOrNone(prop_schema, kExample)
          prop_default == GetOrNone(prop_schema, kDefault)
          items == GetOr(prop_schema, kItems, JDict(<<>>))
          value ==
            IF prop_format \in {TypeName("date-time"), TypeName("datetime")}
            THEN IF prop_example # JNull
                 THEN FormattedValue(prop_example, {"datetime", "date"})
                 ELSE IF prop_default # JNull
                 THEN FormattedValue(prop_default, {"datetime", "date"})
                 ELSE isoformat(datetime_now)
            ELSE IF prop_format = TypeName("date")
            THEN IF prop_example # JNull
                 THEN FormattedValue(prop_example, {"datetime", "date"})
                 ELSE IF prop_default # JNull
                 THEN FormattedValue(prop_default, {"datetime", "date"})
                 ELSE isoformat(date_today)
            ELSE IF prop_example # JNull THEN PlainValue(prop_example)
            ELSE IF prop_default # JNull THEN PlainValue(prop_default)
            ELSE IF InRequired(prop_name, required) \/ Len(required.el) = 0
            THEN CASE prop_type = TypeName("string") -> Placeholder(prop_name)
                   [] prop_type = TypeName("integer") -> JInt(<<"0">>)
                   [] prop_type = TypeName("number") -> JFloat(<<"0", ".", "0">>)
                   [] prop_type = TypeName("boolean") -> JBool(<<"true">>)
                   [] prop_type = TypeName("array") ->
                        IF ~Falsy(items)
                        THEN list_of_item_example(
                                 generate_example_in_frame(items, swagger_data, frame + 1))
                        ELSE JList(<<>>)
                   [] prop_type = TypeName("object") ->
                        generate_example_in_frame(prop_schema, swagger_data, frame + 1)
                   [] OTHER -> Placeholder(prop_name)
            ELSE NotGenerated
      IN IF value = RecursionError THEN RecursionError
         ELSE example_of_properties(properties, i + 1, required, swagger_data,
                                    IF value = NotGenerated THEN example
                                    ELSE Put(example, prop_name, value),
                                    frame)

\* generate_example_from_schema, called in the given frame of the call stack
generate_example_in_frame(given, swagger_data, frame) ==
    IF frame > RecursionLimit THEN RecursionError
    ELSE IF Falsy(given) THEN JDict(<<>>)
    ELSE
      LET schema == IF Has(given, kRef)
                    THEN resolve_schema_reference(swagger_data, Get(given, kRef))
                    ELSE given
          schema_type == GetOr(schema, kType, TypeName("object"))
          items == GetOr(schema, kItems, JDict(<<>>))
          enum_values == GetOr(schema, kEnum, JList(<<>>))
      IN CASE schema_type = TypeName("object") ->
                example_of_properties(GetOr(schema, kProperties, JDict(<<>>)).kv, 1,
                                      GetOr(schema, kRequired, JList(<<>>)),
                                      swagger_data, JDict(<<>>), frame)
           [] schema_type = TypeName("array") ->
                IF ~Falsy(items)
                THEN list_of_item_example(
                         generate_example_in_frame(items, swagger_data, frame + 1))
                ELSE JList(<<>>)
           [] schema_type = TypeName("string") ->
                IF GetOrNone(schema, kExample) # JNull THEN Get(schema, kExample)
                ELSE IF ~Falsy(enum_values) THEN enum_values.el[1]
                ELSE Placeholder(kValue)
           [] schema_type = TypeName("integer") ->
                GetOr(schema, kExample, GetOr(schema, kDefault, JInt(<<"0">>)))
           [] schema_type = TypeName("number") ->
                GetOr(schema, kExample,
                      GetOr(schema, kDefault, JFloat(<<"0", ".", "0">>)))
           [] schema_type = TypeName("boolean") ->
                GetOr(schema, kExample, GetOr(schema, kDefault, JBool(<<"true">>)))
           [] OTHER -> JDict(<<>>)

\* generate_example_from_schema
generate_example_from_schema(schema, swagger_data) ==
    generate_example_in_frame(schema, swagger_data, 1)

\* d[key] = value when present, d otherwise
With(d, present, k, value) == IF present THEN Put(d, k, value) ELSE d

ScalarTypes == {"string", "integer", "number", "boolean"}

ExampleOf(type) ==
    CASE type = "string" -> JStr(<<"e">>)
      [] type = "integer" -> JInt(<<"7">>)
      [] type = "number" -> JFloat(<<"7", ".", "5">>)
      [] OTHER -> JBool(<<"true">>)

DefaultOf(type) ==
    CASE type = "string" -> JStr(<<"d">>)
      [] type = "integer" -> JInt(<<"3">>)
      [] type = "number" -> JFloat(<<"2", ".", "5">>)
      [] OTHER -> JBool(<<"false">>)

EnumOf(type) ==
    CASE type = "string" -> JList(<<JStr(<<"n">>), JStr(<<"m">>)>>)
      [] type = "integer" -> JList(<<JInt(<<"4">>), JInt(<<"5">>)>>)
      [] type = "number" -> JList(<<JFloat(<<"4", ".", "5">>)>>)
      [] OTHER -> JList(<<JBool(<<"false">>)>>)

Node(type, has_example, has_default, has_enum, format) ==
    With(With(With(With(JDict(<<Pair(kType, TypeName(type))>>),
                        format # "", kFormat, TypeName(format)),
                   has_example, kExample, ExampleOf(type)),
              has_default, kDefault, DefaultOf(type)),
         has_enum, kEnum, EnumOf(type))

\* the date formats are formats of strings
FormatsOf(type) == IF type = "string" THEN {"", "date", "date-time"} ELSE {""}

ScalarSchemas ==
    UNION { { Node(type, has_example, has_default, has_enum, format) :
                has_example \in BOOLEAN, has_default \in BOOLEAN,
                has_enum \in BOOLEAN, format \in FormatsOf(type) } :
            type \in ScalarTypes }

Ref(schema_name) == JDict(<<Pair(kRef, JStr(<<RefPrefix, schema_name>>))>>)

ObjectSchema(properties, has_required, required) ==
    With(JDict(<<Pair(kType, TypeName("object")),
                 Pair(kProperties, JDict(properties))>>),
         has_required, kRequired, JList(required))

\* values of a YAML document that are not JSON, and an example of another type
\* than the format asks for
UnusualSchemas ==
    { Put(Node("string", FALSE, FALSE, FALSE, "date-time"), kExample,
          JDateTime(<<"2020-01-02", "T", "03:04:05">>)),
      Put(Node("string", FALSE, FALSE, FALSE, ""), kDefault,
          JDate(<<"2020-01-02">>)),
      Put(Node("string", FALSE, FALSE, FALSE, "date"), kExample, JInt(<<"5">>)) }

ArraySchema(has_items, items) ==
    With(JDict(<<Pair(kType, TypeName("array"))>>), has_items, kItems, items)

PetSchema ==
    ObjectSchema(<<Pair(kName, Node("string", TRUE, FALSE, FALSE, "")),
                   Pair(kAge, Node("integer", FALSE, FALSE, FALSE, ""))>>,
                 TRUE, <<JStr(kName)>>)

SwaggerData ==
    JDict(<<Pair(kComponents,
                 JDict(<<Pair(kSchemas, JDict(<<Pair(<<"Pet">>, PetSchema)>>))>>))>>)

PropertyNames == <<kA, kB, kC, kD>>

PropertyPool ==
    { Node("string", FALSE, FALSE, FALSE, ""),
      Node("integer", FALSE, TRUE, FALSE, ""),
      Ref("Pet") }

RequiredLists == {<<>>, <<JStr(kA)>>, <<JStr(kZ)>>}

PropertyLists ==
    UNION { { [i \in 1..n |-> Pair(PropertyNames[i], nodes[i])] :
                nodes \in [1..n -> PropertyPool] } : n \in 0..MaxProperties }

ObjectSchemas ==
    { ObjectSchema(properties, has_required, required) :
        properties \in PropertyLists \cup
                       { <<Pair(kA, node)>> : node \in ScalarSchemas \cup UnusualSchemas },
        has_required \in BOOLEAN, required \in RequiredLists }

ItemSchemas ==
    { Node(type, has_example, FALSE, FALSE, "") :
        type \in ScalarTypes, has_example \in BOOLEAN }
    \cup { Ref("Pet"), ArraySchema(TRUE, Node("string", FALSE, FALSE, FALSE, "")),
           ObjectSchema(<<Pair(kA, Node("integer", FALSE, FALSE, FALSE, ""))>>,
                        FALSE, <<>>) }

ArraySchemas ==
    { ArraySchema(TRUE, items) : items \in ItemSchemas }
    \cup { ArraySchema(FALSE, JDict(<<>>)) }
    \cup { ObjectSchema(<<Pair(kA, ArraySchema(TRUE, items))>>, FALSE, <<>>) :
             items \in ItemSchemas }

RefSchemas ==
    { Ref("Pet"), Ref("Owner"), JDict(<<Pair(kRef, JStr(<<"#/definitions/", "Pet">>))>>),
      JDict(<<>>) }

Schemas == ScalarSchemas \cup ObjectSchemas \cup ArraySchemas \cup RefSchemas

Instants ==
    { <<"2026-03-04", "T", "10:00:00">>, <<"2026-03-05", "T", "09:30:00">> }

ExampleInit ==
    /\ args \in [schema : Schemas, now : Instants]
    /\ ret = NoValue
    /\ cpc = "start"
    /\ EarlyIdle
    /\ RestIdle

GenerateExample ==
    /\ cpc = "start"
    /\ ret' = generate_example_from_schema(args.schema, SwaggerData)
    /\ cpc' = "done"
    /\ UNCHANGED <<args, earlyVars, restVars>>

ExampleNext == GenerateExample

SpecExample == ExampleInit /\ [][ExampleNext]_vars

\* the schema a node stands for
Resolved(node) ==
    IF Has(node, kRef) THEN resolve_schema_reference(SwaggerData, Get(node, kRef))
    ELSE node

\* value is what the resolution order gives for a node that has an example or
\* a default
ExampleThenDefault(node, present, value) ==
    /\ Has(node, kExample) => present /\ value = Get(node, kExample)
    /\ ~Has(node, kExample) /\ Has(node, kDefault) =>
          present /\ value = Get(node, kDefault)

(***************************************************************************)
(* C20: for each property of an object schema and for a top-level string,  *)
(* integer, number or boolean schema, the generated value is the node's    *)
(* example when it has one, otherwise its default when it has one; only    *)
(* when it has neither is the value synthesised from the type, and nothing *)
(* else, an enum entry included, comes before the default.                 *)
(***************************************************************************)
C20_ExampleThenDefault ==
    cpc = "done" =>
      LET schema == Resolved(args.schema)
          schema_type == GetOr(schema, kType, TypeName("object"))
          properties == GetOr(schema, kProperties, JDict(<<>>))
      IN /\ schema_type \in {TypeName(type) : type \in ScalarTypes} =>
              ExampleThenDefault(schema, TRUE, ret)
         /\ schema_type = TypeName("object") =>
              \A i \in DOMAIN properties.kv :
                 ExampleThenDefault(Resolved(properties.kv[i].v),
                                    Has(ret, properties.kv[i].k),
                                    GetOrNone(ret, properties.kv[i].k))

\* the same for the nodes that are not a top-level string schema and whose
\* example and default are JSON values of the type the format asks for
ExampleThenDefaultElsewhere ==
    cpc = "done" =>
      LET schema == Resolved(args.schema)
          schema_type == GetOr(schema, kType, TypeName("object"))
          properties == GetOr(schema, kProperties, JDict(<<>>))
      IN /\ schema_type \in {TypeName(type) : type \in ScalarTypes \ {"string"}} =>
              ExampleThenDefault(schema, TRUE, ret)
         /\ schema_type = TypeName("object") =>
              \A i \in DOMAIN properties.kv :
                 properties.kv[i].v \notin UnusualSchemas =>
                 ExampleThenDefault(Resolved(properties.kv[i].v),
                                    Has(ret, properties.kv[i].k),
                                    GetOrNone(ret, properties.kv[i].k))

\* the keys of a dict
Keys(d) == {d.kv[i].k : i \in DOMAIN d.kv}

\* the names listed in required[] that are properties of the schema
RequiredNames(schema) ==
    {name \in Keys(GetOr(schema, kProperties, JDict(<<>>))) :
        InRequired(name, GetOr(schema, kRequired, JList(<<>>)))}

IsObjectSchema(schema) ==
    /\ ~Falsy(schema)
    /\ GetOr(schema, kType, TypeName("object")) = TypeName("object")

(***************************************************************************)
(* C21: the keys of the example generated for an object schema are exactly *)
(* the required property names when required[] is non-empty (a property    *)
(* that is not required is absent even when it has an example or a         *)
(* default), and all property names when required[] is empty or missing.   *)
(***************************************************************************)
C21_KeysAreTheRequiredNames ==
    cpc = "done" /\ IsObjectSchema(Resolved(args.schema)) =>
      LET schema == Resolved(args.schema)
          required == GetOr(schema, kRequired, JList(<<>>))
      IN Keys(ret) = IF required.el # <<>> THEN RequiredNames(schema)
                     ELSE Keys(GetOr(schema, kProperties, JDict(<<>>)))

\* the half of it about an empty or missing required[]
AllKeysWithoutRequired ==
    cpc = "done" /\ IsObjectSchema(Resolved(args.schema)) =>
      LET schema == Resolved(args.schema)
      IN GetOr(schema, kRequired, JList(<<>>)).el = <<>> =>
            Keys(ret) = Keys(GetOr(schema, kProperties, JDict(<<>>)))

IsArraySchema(schema) ==
    /\ GetOr(schema, kType, TypeName("object")) = TypeName("array")
    /\ ~Falsy(GetOr(schema, kItems, JDict(<<>>)))

\* the one-element list of the example of the items of an array schema
ListOfItemExample(schema) ==
    JList(<<generate_example_from_schema(Get(schema, kItems), SwaggerData)>>)

(***************************************************************************)
(* C22: for an array schema with an items schema, at the top level or as a *)
(* property that has no example and no default, the generated value is a   *)
(* list of exactly one element, the example generated for the items, for   *)
(* every type of item.                                                     *)
(***************************************************************************)
C22_ArrayOfOneItemExample ==
    cpc = "done" =>
      LET schema == Resolved(args.schema)
          properties == GetOr(schema, kProperties, JDict(<<>>))
      IN /\ ~Falsy(schema) /\ IsArraySchema(schema) => ret = ListOfItemExample(schema)
         /\ IsObjectSchema(schema) =>
              \A i \in DOMAIN properties.kv :
                 LET prop_schema == Resolved(properties.kv[i].v)
                 IN /\ IsArraySchema(prop_schema)
                    /\ ~Has(prop_schema, kExample)
                    /\ ~Has(prop_schema, kDefault)
                    /\ ~Has(prop_schema, kFormat)
                    /\ Has(ret, properties.kv[i].k)
                    => Get(ret, properties.kv[i].k) = ListOfItemExample(prop_schema)

\* the same for the items whose example is not a false value of Python
ArrayOfOneTrueItemExample ==
    cpc = "done" =>
      LET schema == Resolved(args.schema)
          properties == GetOr(schema, kProperties, JDict(<<>>))
      IN /\ ~Falsy(schema) /\ IsArraySchema(schema)
            /\ ~Falsy(generate_example_from_schema(Get(schema, kItems), SwaggerData))
            => ret = ListOfItemExample(schema)
         /\ IsObjectSchema(schema) =>
              \A i \in DOMAIN properties.kv :
                 LET prop_schema == Resolved(properties.kv[i].v)
                 IN /\ IsArraySchema(prop_schema)
                    /\ ~Has(prop_schema, kExample)
                    /\ ~Has(prop_schema, kDefault)
                    /\ ~Has(prop_schema, kFormat)
                    /\ ~Falsy(generate_example_from_schema(Get(prop_schema, kItems),
                                                           SwaggerData))
                    /\ Has(ret, properties.kv[i].k)
                    => Get(ret, properties.kv[i].k) = ListOfItemExample(prop_schema)

(***************************************************************************)
(* Property extraction from a schema (extract_schema_properties).          *)
(***************************************************************************)
kDescription == <<"description">>

\* d[key] = source[key] when key is in source
Copy(d, source, k) == IF Has(source, k) THEN Put(d, k, Get(source, k)) ELSE d

\* [nested_props] if nested_props else [], an exception passing through
list_of_nested_props(nested_props) ==
    IF nested_props = RecursionError THEN RecursionError
    ELSE IF ~Falsy(nested_props) THEN JList(<<nested_props>>) ELSE JList(<<>>)

\* the structure returned for an array of primitives
array_of_primitives(item_type, nullable) ==
    JDict(<<Pair(kType, TypeName("array")),
            Pair(kItems, JDict(<<Pair(kType, item_type), Pair(kNullable, nullable)>>))>>)

RECURSIVE extract_schema_properties_in_frame(_, _, _, _)
RECURSIVE extract_of_properties(_, _, _, _, _, _, _)

\* the loop over properties.items() of an object schema, from property i
extract_of_properties(properties, i, required, swagger_data, prefix, result, frame) ==
    IF i > Len(properties) THEN result
    ELSE
      LET prop_name == properties[i].k
          given == properties[i].v
          prop_schema == IF Has(given, kRef)
                         THEN resolve_schema_reference(swagger_data, Get(given, kRef))
                         ELSE given
          prop_type == GetOr(prop_schema, kType, TypeName("string"))
          prop_format == GetOr(prop_schema, kFormat, JStr(<<>>))
          nullable == GetOr(prop_schema, kNullable, JBool(<<"false">>))
          is_required == JBool(IF InRequired(prop_name, required)
                               THEN <<"true">> ELSE <<"false">>)
          described ==
            Copy(Copy(Copy(
              IF ~Falsy(prop_format)
              THEN Put(JDict(<<Pair(kName, JStr(prop_name)), Pair(kType, prop_type),
                               Pair(kNullable, nullable), Pair(kRequired, is_required)>>),
                       kFormat, prop_format)
              ELSE JDict(<<Pair(kName, JStr(prop_name)), Pair(kType, prop_type),
                           Pair(kNullable, nullable), Pair(kRequired, is_required)>>),
              prop_schema, kDescription), prop_schema, kDefault), prop_schema, kEnum)
          given_items == GetOr(prop_schema, kItems, JDict(<<>>))
          items == IF Has(given_items, kRef)
                   THEN resolve_schema_reference(swagger_data, Get(given_items, kRef))
                   ELSE given_items
          item_type == GetOr(items, kType, TypeName("string"))
          nested_props ==
            IF prop_type = TypeName("object")
            THEN extract_schema_properties_in_frame(prop_schema, swagger_data,
                                                    JoinPath(prefix, prop_name), frame + 1)
            ELSE extract_schema_properties_in_frame(items, swagger_data,
                                                    JoinPath(prefix, prop_name \o <<"[]">>),
                                                    frame + 1)
          prop_info ==
            IF prop_type = TypeName("object")
            THEN IF nested_props = RecursionError THEN RecursionError
                 ELSE Put(described, kProperties, nested_props)
            ELSE IF prop_type = TypeName("array") /\ ~Falsy(given_items)
            THEN IF item_type = TypeName("object")
                 THEN IF nested_props = RecursionError THEN RecursionError
                      ELSE Put(described, kItems,
                               JDict(<<Pair(kType, item_type),
                                       Pair(kProperties, nested_props)>>))
                 ELSE Put(described, kItems, JDict(<<Pair(kType, item_type)>>))
            ELSE described
      IN IF prop_info = RecursionError THEN RecursionError
         ELSE extract_of_properties(properties, i + 1, required, swagger_data, prefix,
                                    Put(result, prop_name, prop_info), frame)

\* extract_schema_properties, called in the given frame of the call stack
extract_schema_properties_in_frame(given, swagger_data, prefix, frame) ==
    IF frame > RecursionLimit THEN RecursionError
    ELSE IF Falsy(given) THEN JDict(<<>>)
    ELSE
      LET schema == IF Has(given, kRef)
                    THEN resolve_schema_reference(swagger_data, Get(given, kRef))
                    ELSE given
          schema_type == GetOr(schema, kType, TypeName("object"))
          given_items == GetOr(schema, kItems, JDict(<<>>))
          items == IF Has(given_items, kRef)
                   THEN resolve_schema_reference(swagger_data, Get(given_items, kRef))
                   ELSE given_items
          item_type == GetOr(items, kType, TypeName("string"))
      IN CASE schema_type = TypeName("object") ->
                extract_of_properties(GetOr(schema, kProperties, JDict(<<>>)).kv, 1,
                                      GetOr(schema, kRequired, JList(<<>>)),
                                      swagger_data, prefix, JDict(<<>>), frame)
           [] schema_type = TypeName("array") ->
                IF ~Falsy(given_items)
                THEN IF item_type = TypeName("object")
                     THEN list_of_nested_props(
                              extract_schema_properties_in_frame(
                                  items, swagger_data, prefix \o <<"[]">>, frame + 1))
                     ELSE array_of_primitives(item_type,
                                              GetOr(items, kNullable, JBool(<<"false">>)))
                ELSE array_of_primitives(TypeName("string"), JBool(<<"false">>))
           [] OTHER ->
                Copy(Copy(Copy(Copy(
                  JDict(<<Pair(kType, schema_type),
                          Pair(kNullable, GetOr(schema, kNullable, JBool(<<"false">>)))>>),
                  schema, kFormat), schema, kDescription), schema, kDefault), schema, kEnum)

\* extract_schema_properties
extract_schema_properties(schema, swagger_data) ==
    extract_schema_properties_in_frame(schema, swagger_data, <<>>, 1)

kParent == <<"parent">>

\* a component schema "Node" with a property "parent" that refers to Node
NodeSchema(has_type, has_required, required, has_example, has_default, has_format) ==
    With(With(With(With(With(
      JDict(<<Pair(kProperties,
                   JDict(<<Pair(kName, Node("string", FALSE, FALSE, FALSE, "")),
                           Pair(kParent, Ref("Node"))>>))>>),
      has_type, kType, TypeName("object")),
      has_required, kRequired, JList(required)),
      has_example, kExample, JDict(<<Pair(kName, JStr(<<"e">>))>>)),
      has_default, kDefault, JDict(<<>>)),
      has_format, kFormat, TypeName("date"))

Components(name, schema) ==
    JDict(<<Pair(kComponents, JDict(<<Pair(kSchemas, JDict(<<Pair(name, schema)>>))>>))>>)

SelfReferentialDocuments ==
    { Components(<<"Node">>,
                 NodeSchema(has_type, has_required, required, has_example,
                            has_default, has_format)) :
        has_type \in BOOLEAN, has_required \in BOOLEAN,
        required \in {<<>>, <<JStr(kName)>>, <<JStr(kParent)>>},
        has_example \in BOOLEAN, has_default \in BOOLEAN, has_format \in BOOLEAN }

\* a document and a schema of it
RecursionCalls ==
    { [schema |-> schema, now |-> <<"2026-03-04", "T", "10:00:00">>,
       swagger_data |-> swagger_data] :
        schema \in {Ref("Node")}, swagger_data \in SelfReferentialDocuments }
    \cup
    { [schema |-> Get(Get(Get(swagger_data, kComponents), kSchemas), <<"Node">>),
       now |-> <<"2026-03-04", "T", "10:00:00">>, swagger_data |-> swagger_data] :
        swagger_data \in SelfReferentialDocuments }
    \cup
    { [schema |-> schema, now |-> <<"2026-03-04", "T", "10:00:00">>,
       swagger_data |-> SwaggerData] :
        schema \in ArraySchemas \cup RefSchemas \cup
                   { ObjectSchema(properties, TRUE, <<JStr(kA)>>) :
                       properties \in PropertyLists } }

RecursionInit ==
    /\ args \in RecursionCalls
    /\ ret = NoValue
    /\ cpc = "start"
    /\ EarlyIdle
    /\ RestIdle

\* what conversion does with the schema of a body
ExtractAndGenerate ==
    /\ cpc = "start"
    /\ ret' = [extracted |-> extract_schema_properties(args.schema, args.swagger_data),
               generated |-> generate_example_from_schema(args.schema, args.swagger_data)]
    /\ cpc' = "done"
    /\ UNCHANGED <<args, earlyVars, restVars>>

RecursionNext == ExtractAndGenerate

SpecRecursion == RecursionInit /\ [][RecursionNext]_vars

\* the component schema of a name, looked up in the document
Component(swagger_data, schema_name) ==
    GetOr(GetOr(GetOr(swagger_data, kComponents, JDict(<<>>)), kSchemas, JDict(<<>>)),
          schema_name, JDict(<<>>))

\* #/components/schemas/<name> of a node with a $ref
RefTarget(swagger_data, node) ==
    IF Head(Get(node, kRef).s) = RefPrefix
    THEN Component(swagger_data, Tail(Get(node, kRef).s))
    ELSE JDict(<<>>)

\* the schema a call is about
Enclosing(call) ==
    IF Has(call.schema, kRef) THEN RefTarget(call.swagger_data, call.schema)
    ELSE call.schema

\* the properties of the schema whose $ref resolves to the schema itself
SelfReferences(call) ==
    LET properties == GetOr(Enclosing(call), kProperties, JDict(<<>>))
    IN { properties.kv[i].k : i \in
           { j \in DOMAIN properties.kv :
               /\ Has(properties.kv[j].v, kRef)
               /\ RefTarget(call.swagger_data, properties.kv[j].v) = Enclosing(call) } }

RECURSIVE RefsIn(_)
\* the component names that a value refers to, at any depth
RefsIn(value) ==
    (IF Has(value, kRef) /\ Head(Get(value, kRef).s) = RefPrefix
     THEN {Tail(Get(value, kRef).s)} ELSE {})
    \cup UNION {RefsIn(value.kv[i].v) : i \in DOMAIN value.kv}
    \cup UNION {RefsIn(value.el[i]) : i \in DOMAIN value.el}

RECURSIVE ReachedFrom(_, _)
\* the component names reached from a set of names by following references
ReachedFrom(swagger_data, names) ==
    LET next == names \cup UNION {RefsIn(Component(swagger_data, name)) : name \in names}
    IN IF next = names THEN names ELSE ReachedFrom(swagger_data, next)

\* the names of the component schemas of a document
ComponentNames(swagger_data) ==
    Keys(GetOr(GetOr(swagger_data, kComponents, JDict(<<>>)), kSchemas, JDict(<<>>)))

\* no component schema of the document reaches itself
Acyclic(swagger_data) ==
    \A name \in ComponentNames(swagger_data) :
       name \notin ReachedFrom(swagger_data, RefsIn(Component(swagger_data, name)))

\* the schema says "type": "object"
DeclaredObject(schema) == Has(schema, kType) /\ Get(schema, kType) = TypeName("object")

\* a property that refers to the schema itself gets a synthesised value: the
\* schema has no example, default or date format and the property is required
\* or nothing is
SynthesisedSelfReference(call) ==
    LET schema == Enclosing(call)
        required == GetOr(schema, kRequired, JList(<<>>))
    IN /\ DeclaredObject(schema)
       /\ ~Has(schema, kExample)
       /\ ~Has(schema, kDefault)
       /\ GetOr(schema, kFormat, JStr(<<>>)) \notin
             {TypeName("date"), TypeName("date-time"), TypeName("datetime")}
       /\ \E name \in SelfReferences(call) :
             InRequired(name, required) \/ required.el = <<>>

(***************************************************************************)
(* C23 as claimed: on a schema with a property whose $ref resolves to the  *)
(* schema itself, neither extract_schema_properties nor                    *)
(* generate_example_from_schema returns a value, whatever required[],      *)
(* example and default are; on a document without a cycle of references    *)
(* both return.                                                            *)
(***************************************************************************)
C23_SelfReferenceNeverReturns ==
    cpc = "done" =>
      /\ SelfReferences(args) # {} =>
            ret.extracted = RecursionError /\ ret.generated = RecursionError
      /\ Acyclic(args.swagger_data) =>
            ret.extracted # RecursionError /\ ret.generated # RecursionError

(***************************************************************************)
(* C23 as amended: on such a schema that declares type object,             *)
(* extract_schema_properties recurses up to the recursion limit and raises *)
(* RecursionError whatever required[], example and default are;            *)
(* generate_example_from_schema does so exactly when a self-referencing    *)
(* property gets a synthesised value, and returns a value otherwise; when  *)
(* the schema declares no type, extract_schema_properties returns; on a    *)
(* document without a cycle of references both return.                     *)
(***************************************************************************)
C23_SelfReferenceRaisesWhenEntered ==
    cpc = "done" =>
      /\ SelfReferences(args) # {} =>
            /\ ret.extracted = RecursionError <=> DeclaredObject(Enclosing(args))
            /\ ret.generated = RecursionError <=> SynthesisedSelfReference(args)
      /\ Acyclic(args.swagger_data) =>
            ret.extracted # RecursionError /\ ret.generated # RecursionError

C23_Witness ==
    /\ cpc = "done"
    /\ SelfReferences(args) # {}
    /\ Has(Enclosing(args), kRequired)
    /\ ret.extracted = RecursionError
    /\ ret.generated # RecursionError
    /\ ret.generated.t = "dict"

(***************************************************************************)
(* The places that sanitize a name.                                        *)
(***************************************************************************)
MaxName == 3   \* tokens of a name

\* sanitize_name_for_matching of default_api_configs.py
sanitize_name_for_matching(name) ==
    LET sanitized == StripDashes(Collapse(DropPunctuation(name)))
    IN [i \in DOMAIN sanitized |-> LowerName(sanitized[i])]

NameTokens == {"Pets", "all", "_", " ", "-", "!"}

Names == UNION {[1..n -> NameTokens] : n \in 0..MaxName}

SanitizeInit ==
    /\ args \in [name : Names]
    /\ ret = NoValue
    /\ cpc = "start"
    /\ EarlyIdle
    /\ RestIdle

\* the identifier or matching key every place derives from the name
Sanitize ==
    /\ cpc = "start"
    /\ ret' = [convert |-> sanitize_name(args.name),
               matching |-> sanitize_name_for_matching(args.name),
               create_collection |-> sanitized_name(args.name),
               clone_collection |-> sanitized_name(args.name),
               merge_collections |-> sanitized_name(args.name)]
    /\ cpc' = "done"
    /\ UNCHANGED <<args, earlyVars, restVars>>

SanitizeNext == Sanitize

SpecSanitize == SanitizeInit /\ [][SanitizeNext]_vars

(***************************************************************************)
(* C24: for every name, SwaggerParser.sanitize_name,                       *)
(* sanitize_name_for_matching and the sanitization written out in          *)
(* create_collection, clone_collection and merge_collections give the same *)
(* string.                                                                 *)
(***************************************************************************)
C24_OneSanitization ==
    cpc = "done" =>
      /\ ret.convert = ret.matching
      /\ ret.convert = ret.create_collection
      /\ ret.convert = ret.clone_collection
      /\ ret.convert = ret.merge_collections

\* they agree on the names without "_"
OneSanitizationWithoutUnderscore ==
    cpc = "done" /\ (\A i \in DOMAIN args.name : args.name[i] # "_") =>
      /\ ret.convert = ret.matching
      /\ ret.convert = ret.create_collection
      /\ ret.convert = ret.clone_collection
      /\ ret.convert = ret.merge_collections

(***************************************************************************)
(* merge_collection_items and its arguments.                               *)
(***************************************************************************)
\* the injection folders of a tree, at any depth
RECURSIVE flatten_folders(_)
flatten_folders(items) ==
    IF items = <<>> THEN <<>>
    ELSE (IF Head(items).kind = "folder"
          THEN (IF is_injection_folder(Head(items)) THEN <<Head(items)>> ELSE <<>>)
               \o flatten_folders(Head(items).item)
          ELSE <<>>)
         \o flatten_folders(Tail(items))

(***************************************************************************)
(* C25: merge_collection_items leaves its arguments as they were: after    *)
(* the call original_items, with every nested item list, equals what was   *)
(* passed (updated_items is never written), so a second merge of the same  *)
(* updated_items against original_items returns an equal tree.             *)
(***************************************************************************)
C25_ArgumentsUnchanged ==
    mpc \in {"merged", "remerged"} =>
      /\ original_items_after = original_items
      /\ merge_collection_items(original_items_after, updated_items)
           = merge_collection_items(original_items, updated_items)

\* the second call leaves the list it is given as it was
ReMergeLeavesItsArgument == [][mpc = "merged" => merged_result' = merged_result]_vars

\* a list without injection folder is left as it was
UnchangedWithoutInjectionFolder ==
    mpc \in {"merged", "remerged"} /\ flatten_folders(original_items) = <<>> =>
      original_items_after = original_items

\* the clones of the updated tree as the second pass inserts them
PlacedClones ==
    {clean_item(it) : it \in
       {flatten_items(updated_items)[i] : i \in
          {j \in DOMAIN flatten_items(updated_items) :
             /\ flatten_items(updated_items)[j].kind = "request"
             /\ is_clone(flatten_items(updated_items)[j])}}}

\* SameKind for an item of the result and the item of O at the same place
SameKind(result_item, orig_item) == result_item.kind = orig_item.kind

\* the same, or a request without method replaced by the item of the updated
\* tree with that name that has neither a request nor an item list
SameKindOrBare(result_item, orig_item) ==
    \/ result_item.kind = orig_item.kind
    \/ /\ orig_item.kind = "request" /\ orig_item.method = ""
       /\ result_item.kind = "other" /\ result_item.name = orig_item.name

\* result is original item by item (kinds, folder names, and so on down the
\* folders), followed by clones of the second pass only
RECURSIVE SameShape(_, _, _)
SameShape(result, original, bare_allowed) ==
    /\ Len(result) >= Len(original)
    /\ \A i \in DOMAIN result :
          IF i <= Len(original)
          THEN /\ IF bare_allowed THEN SameKindOrBare(result[i], original[i])
                  ELSE SameKind(result[i], original[i])
               /\ original[i].kind = "folder" =>
                     /\ result[i].name = original[i].name
                     /\ SameShape(result[i].item, original[i].item, bare_allowed)
          ELSE result[i] \in PlacedClones

\* the requests of the updated tree that are no clones and have the name and
\* method of no request of O are nowhere in the result
UnmatchedAreAbsent ==
    \A i \in DOMAIN flatten_items(updated_items) :
       LET u == flatten_items(updated_items)[i]
           originals == flatten_items(original_items)
           merged == flatten_items(merged_result)
       IN /\ u.kind = "request"
          /\ ~is_clone(u)
          /\ ~\E k \in DOMAIN originals :
                /\ originals[k].kind = "request"
                /\ originals[k].name = u.name
                /\ originals[k].method = u.method
          => ~\E k \in DOMAIN merged : merged[k] = u

(***************************************************************************)
(* C26 as claimed: apart from the clones inserted by the second pass, the  *)
(* result has the shape of O: every item list has the length, the folder   *)
(* names and the folder/request kinds of the corresponding list of O, in   *)
(* the same order; a request of U that is no clone and matches no          *)
(* (name, method) of O is nowhere in the result.                           *)
(***************************************************************************)
C26_ShapeOfOriginal ==
    mpc \in {"merged", "remerged"} =>
      /\ SameShape(merged_result, original_items, FALSE)
      /\ UnmatchedAreAbsent

(***************************************************************************)
(* C26 as amended: the same, except that a request of O without method may *)
(* be replaced by the item of U of the same name that has neither a        *)
(* request nor an item list, so that the kind at that place changes.       *)
(***************************************************************************)
C26_ShapeOfOriginalButBareRequests ==
    mpc \in {"merged", "remerged"} =>
      /\ SameShape(merged_result, original_items, TRUE)
      /\ UnmatchedAreAbsent

C26_Witness ==
    /\ mpc = "merged"
    /\ Len(original_items) = 2
    /\ original_items[1].kind = "folder"
    /\ original_items[2] = oBare
    /\ Len(merged_result) = 3
    /\ merged_result[2].kind = "other"
    /\ merged_result[3] \in PlacedClones
(***************************************************************************)
(* conversions.py: convert_swagger_to_postman and cancel_conversion over   *)
(* the module-level dict conversion_store.  Both are coroutines of one     *)
(* event loop: a coroutine runs alone from one await that suspends to the  *)
(* next.  convert suspends once, at `await SwaggerParser.parse_file`       *)
(* (aiofiles); generate_environment_files awaits nothing, and neither does *)
(* cancel_conversion.                                                      *)
(***************************************************************************)
SwaggerFileIds == {"petstore", "orders"}
MaxConvertCalls == 3
MaxClock == 1

FinalStatuses == {"completed", "failed", "cancelled"}

\* f"conv_{request.swagger_file_id}_{int(datetime.now().timestamp())}"
conversion_id_of(swagger_file_id, timestamp) == <<swagger_file_id, timestamp>>

ConversionRecord(status, conversion_id, collection_path) == [status |-> status, conversion_id |-> conversion_id, collection_path |-> collection_path]

ConvertCall(conversion_id, swagger_file_id, pc, code) == [conversion_id |-> conversion_id, swagger_file_id |-> swagger_file_id, pc |-> pc, code |-> code]

StoreWith(store, conversion_id, record) == [k \in DOMAIN store \cup {conversion_id} |-> IF k = conversion_id THEN record ELSE store[k]]

\* what the call does between `await parse_file` and its exit
ConvertOutcomes == {"ok", "parse_error", "save_error", "environment_error"}

\* the outcomes in which the collection file is written (json.dump, line 1309)
writes_collection_file(outcome) == outcome \in {"ok", "environment_error"}

\* a mutant: the except branches re-raise without touching the record
record_after_convert_reraising(record, outcome, swagger_file_id) == IF outcome = "ok" THEN [record EXCEPT !.status = "completed", !.collection_path = swagger_file_id] ELSE record

\* the record after the last update the call makes to it: the update of
\* lines 1329-1335, or the one of the except branch taken (1348-1375)
record_after_convert(record, outcome, swagger_file_id) == IF outcome = "ok" THEN [record EXCEPT !.status = "completed", !.collection_path = swagger_file_id] ELSE [record EXCEPT !.status = "failed"]

ConversionInit ==
    /\ conversion_store = <<>>
    /\ convert_calls = <<>>
    /\ collection_files = {}
    /\ now = 0
    /\ EarlyIdle
    /\ CallIdle
    /\ StoreIdle
    /\ BuilderIdle
    /\ ConditionIdle

\* convert_swagger_to_postman from its entry to `await parse_file`: the record
\* is created "in_progress"; when the swagger file is not found the record is
\* set to "failed" and the call raises 404
ConvertEnter(swagger_file_id, found) ==
    /\ Len(convert_calls) < MaxConvertCalls
    /\ LET conversion_id == conversion_id_of(swagger_file_id, now)
           status == IF found THEN "in_progress" ELSE "failed"
       IN  /\ conversion_store' = StoreWith(conversion_store, conversion_id, ConversionRecord(status, conversion_id, ""))
           /\ convert_calls' = Append(convert_calls, ConvertCall(conversion_id, swagger_file_id, IF found THEN "parse_file" ELSE "raised", IF found THEN 0 ELSE 404))
    /\ UNCHANGED <<collection_files, now>>
    /\ UNCHANGED <<earlyVars, callVars, storeVars, builderVars, conditionVars>>

\* the call i from the completion of `await parse_file` to its exit
ConvertResume(i, outcome) ==
    /\ i \in DOMAIN convert_calls
    /\ convert_calls[i].pc = "parse_file"
    /\ LET call == convert_calls[i]
           conversion_id == call.conversion_id
       IN  /\ collection_files' = IF writes_collection_file(outcome) THEN collection_files \cup {call.swagger_file_id} ELSE collection_files
           /\ conversion_store' = [conversion_store EXCEPT ![conversion_id] = record_after_convert(@, outcome, call.swagger_file_id)]
           /\ convert_calls' = [convert_calls EXCEPT ![i] = ConvertCall(conversion_id, call.swagger_file_id, IF outcome = "ok" THEN "returned" ELSE "raised", IF outcome = "ok" THEN 200 ELSE 500)]
    /\ UNCHANGED now
    /\ UNCHANGED <<earlyVars, callVars, storeVars, builderVars, conditionVars>>

\* cancel_conversion when it succeeds (it raises 404 for an unknown id and 400
\* for a record whose status is final, and changes nothing then)
CancelConversion(conversion_id) ==
    /\ conversion_id \in DOMAIN conversion_store
    /\ conversion_store[conversion_id].status \notin FinalStatuses
    /\ conversion_store' = [conversion_store EXCEPT ![conversion_id].status = "cancelled"]
    /\ UNCHANGED <<convert_calls, collection_files, now>>
    /\ UNCHANGED <<earlyVars, callVars, storeVars, builderVars, conditionVars>>

\* a second passes
Tick ==
    /\ now < MaxClock
    /\ now' = now + 1
    /\ UNCHANGED <<conversion_store, convert_calls, collection_files>>
    /\ UNCHANGED <<earlyVars, callVars, storeVars, builderVars, conditionVars>>

ConversionNext ==
    \/ \E swagger_file_id \in SwaggerFileIds, found \in BOOLEAN : ConvertEnter(swagger_file_id, found)
    \/ \E i \in 1..MaxConvertCalls, outcome \in ConvertOutcomes : ConvertResume(i, outcome)
    \/ \E swagger_file_id \in SwaggerFileIds, timestamp \in 0..MaxClock : CancelConversion(conversion_id_of(swagger_file_id, timestamp))
    \/ Tick

SpecConversion == ConversionInit /\ [][ConversionNext]_vars

StatusOf(store, conversion_id) == store[conversion_id].status

Exited(call) == call.pc \in {"returned", "raised"}

\* C27: a conversion record whose status is "completed", "failed" or
\* "cancelled" never changes status again; in particular a record cancelled
\* while its convert call is suspended stays "cancelled" after the call ends.
C27_FinalStatusIsFinal == [][\A conversion_id \in DOMAIN conversion_store : StatusOf(conversion_store, conversion_id) \in FinalStatuses => StatusOf(conversion_store', conversion_id) = StatusOf(conversion_store, conversion_id)]_vars

\* cancel_conversion itself never changes a final status
CancelLeavesFinalStatus == [][\A conversion_id \in DOMAIN conversion_store : (StatusOf(conversion_store, conversion_id) \in FinalStatuses /\ convert_calls' = convert_calls) => StatusOf(conversion_store', conversion_id) = StatusOf(conversion_store, conversion_id)]_vars

\* the case of C27: a record is "cancelled" while the call that created it is
\* suspended at `await parse_file`
CancelledWhileSuspended == \E i \in DOMAIN convert_calls : convert_calls[i].pc = "parse_file" /\ StatusOf(conversion_store, convert_calls[i].conversion_id) = "cancelled"

CancelledStaysCancelledWithoutReuse == [][\A conversion_id \in DOMAIN conversion_store : (StatusOf(conversion_store, conversion_id) = "cancelled" /\ Len(convert_calls') = Len(convert_calls)) => StatusOf(conversion_store', conversion_id) = "cancelled"]_vars
(***************************************************************************)
(* filtering_conditions.py: the endpoints over the master data file.       *)
(* Every handler loads the list, changes it and saves it without awaiting, *)
(* so a handler is one step.  A handler that raises saves nothing.         *)
(***************************************************************************)
MaxConditionCalls == 2
MaxImported == 2

DataTypes == {"string", "String", "number"}
ConditionKeys == {"EQ", "eq", "NE"}

\* str.lower() on a dataType
data_type_lower(data_type) == IF data_type = "String" THEN "string" ELSE data_type

\* str.upper() on a key
key_upper(key) == IF key = "eq" THEN "EQ" ELSE key

\* str(uuid.uuid4()): a value no earlier call has drawn
uuid4(call, n) == <<call, n>>

Condition(id, dataType, key, enabled) == [id |-> id, dataType |-> dataType, key |-> key, enabled |-> enabled]

\* an entry of an import payload
Imported(dataType, key, enabled) == [dataType |-> dataType, key |-> key, enabled |-> enabled]

\* (c.get("dataType", "").lower(), c.get("key", "").upper())
condition_key(c) == <<data_type_lower(c.dataType), key_upper(c.key)>>

\* the duplicate test of create_condition
create_is_duplicate(conditions, dataType, key) == \E i \in DOMAIN conditions : data_type_lower(conditions[i].dataType) = data_type_lower(dataType) /\ key_upper(conditions[i].key) = key_upper(key)

\* the duplicate test of update_condition
update_is_duplicate(conditions, condition_id, dataType, key) == \E i \in DOMAIN conditions : conditions[i].id # condition_id /\ data_type_lower(conditions[i].dataType) = data_type_lower(dataType) /\ key_upper(conditions[i].key) = key_upper(key)

\* the index found by `for idx, existing in enumerate(conditions)` with break
condition_index(conditions, condition_id) == IF \E i \in DOMAIN conditions : conditions[i].id = condition_id THEN CHOOSE i \in DOMAIN conditions : conditions[i].id = condition_id /\ \A j \in 1..(i - 1) : conditions[j].id # condition_id ELSE 0

\* {(dataType.lower(), key.upper()): idx for idx, c in enumerate(existing)}:
\* a later index replaces an earlier one under the same key
existing_keys(existing_conditions) == [k \in {condition_key(existing_conditions[i]) : i \in DOMAIN existing_conditions} |-> CHOOSE i \in DOMAIN existing_conditions : condition_key(existing_conditions[i]) = k /\ \A j \in (i + 1)..Len(existing_conditions) : condition_key(existing_conditions[j]) # k]

\* `for imported in imported_conditions` of import_conditions: keys is
\* existing_keys, computed once before the loop
RECURSIVE import_loop(_, _, _, _, _)
import_loop(imported_conditions, n, existing_conditions, keys, call) ==
    IF n > Len(imported_conditions) THEN existing_conditions
    ELSE LET imported == imported_conditions[n]
             key == condition_key(imported)
         IN  IF key \in DOMAIN keys
             THEN import_loop(imported_conditions, n + 1, [existing_conditions EXCEPT ![keys[key]].enabled = imported.enabled], keys, call)
             ELSE import_loop(imported_conditions, n + 1, Append(existing_conditions, Condition(uuid4(call, n), imported.dataType, imported.key, imported.enabled)), keys, call)

\* no two stored conditions have the same (dataType, key), case-insensitively
Unique(conditions) == \A i, j \in DOMAIN conditions : condition_key(conditions[i]) = condition_key(conditions[j]) => i = j

StoredLists == { <<>>, <<Condition(uuid4(0, 1), "string", "EQ", TRUE)>>, <<Condition(uuid4(0, 1), "String", "eq", FALSE), Condition(uuid4(0, 2), "number", "NE", TRUE)>> }

ConditionInit ==
    /\ master_data_file \in StoredLists
    /\ condition_calls = 0
    /\ EarlyIdle
    /\ CallIdle
    /\ StoreIdle
    /\ BuilderIdle
    /\ ConversionIdle

Saved(conditions) ==
    /\ condition_calls < MaxConditionCalls
    /\ master_data_file' = conditions
    /\ condition_calls' = condition_calls + 1
    /\ UNCHANGED <<earlyVars, callVars, storeVars, builderVars, conversionVars>>

create_condition(dataType, key, enabled) ==
    /\ ~create_is_duplicate(master_data_file, dataType, key)
    /\ Saved(Append(master_data_file, Condition(uuid4(condition_calls + 1, 1), dataType, key, enabled)))

update_condition(condition_id, dataType, key, enabled) ==
    /\ condition_index(master_data_file, condition_id) # 0
    /\ ~update_is_duplicate(master_data_file, condition_id, dataType, key)
    /\ Saved([master_data_file EXCEPT ![condition_index(master_data_file, condition_id)] = Condition(condition_id, dataType, key, enabled)])

delete_condition(condition_id) ==
    /\ \E i \in DOMAIN master_data_file : master_data_file[i].id = condition_id
    /\ Saved(SelectSeq(master_data_file, LAMBDA c : c.id # condition_id))

toggle_condition(condition_id) ==
    /\ condition_index(master_data_file, condition_id) # 0
    /\ Saved([master_data_file EXCEPT ![condition_index(master_data_file, condition_id)].enabled = ~@])

import_conditions(imported_conditions) ==
    /\ Len(imported_conditions) <= MaxImported
    /\ Saved(import_loop(imported_conditions, 1, master_data_file, existing_keys(master_data_file), condition_calls + 1))

ConditionIds == {uuid4(call, n) : call \in 0..MaxConditionCalls, n \in 1..MaxImported}
ImportedEntries == {Imported(dataType, key, TRUE) : dataType \in DataTypes, key \in ConditionKeys}
ImportPayloads == UNION {[1..n -> ImportedEntries] : n \in 0..MaxImported}

ConditionNext ==
    \/ \E dataType \in DataTypes, key \in ConditionKeys, enabled \in BOOLEAN : create_condition(dataType, key, enabled)
    \/ \E condition_id \in ConditionIds, dataType \in DataTypes, key \in ConditionKeys, enabled \in BOOLEAN : update_condition(condition_id, dataType, key, enabled)
    \/ \E condition_id \in ConditionIds : delete_condition(condition_id)
    \/ \E condition_id \in ConditionIds : toggle_condition(condition_id)
    \/ \E imported_conditions \in ImportPayloads : import_conditions(imported_conditions)

SpecCondition == ConditionInit /\ [][ConditionNext]_vars

\* C29: starting from a list without duplicates, after any sequence of create,
\* update, toggle, delete and import (an import may list a condition twice),
\* no two stored conditions have the same (dataType, key), both compared
\* case-insensitively.
C29_NoDuplicateConditions == Unique(master_data_file)

\* a step that adds at most one condition to a list without duplicates leaves
\* a list without duplicates
NoDuplicateUnlessTwoAreAdded == [][(Unique(master_data_file) /\ Len(master_data_file') <= Len(master_data_file) + 1) => Unique(master_data_file')]_vars
(***************************************************************************)
(* conversions.py: the end of convert_swagger_to_postman, from the built   *)
(* collection to the document that is written (lines 1243-1310), and       *)
(* login_collection.py get_login_collection_items.                         *)
(***************************************************************************)
MaxItems == 2

kPostmanId == <<"_postman_id">>
kItem      == <<"item">>
kInfo      == <<"info">>

\* del d[key]
Del(d, k) == [d EXCEPT !.kv = SelectSeq(d.kv, LAMBDA p : p.k # k)]

\* clean_request_items: the list after the call
RECURSIVE clean_request_items(_)
clean_request_items(items) ==
    [i \in DOMAIN items |->
        LET item == IF Has(items[i], kPostmanId) THEN Del(items[i], kPostmanId) ELSE items[i]
        IN  IF Has(item, kItem) /\ Get(item, kItem).t = "list"
            THEN Put(item, kItem, JList(clean_request_items(Get(item, kItem).el)))
            ELSE item]

\* the stored login collection: no file, a file that json.load rejects, or a
\* document
NoLoginFile == [exists |-> FALSE]
UnreadableLoginFile == [unreadable |-> TRUE]

\* get_login_collection_items: None (NoValue) or the "item" of the document
get_login_collection_items(login_file) ==
    IF login_file = NoLoginFile \/ login_file = UnreadableLoginFile THEN NoValue
    ELSE IF Has(login_file, kItem) THEN Get(login_file, kItem) ELSE JList(<<>>)

\* `if login_items:`
login_items_true(login_items) == login_items # NoValue /\ login_items.el # <<>>

\* the document handed to json.dump: info gets a _postman_id, the items are
\* cleaned, then the folder "Login" is inserted in front
written_collection(collection, login_file) ==
    LET info == Get(collection, kInfo)
        with_id == IF Has(info, kPostmanId) THEN collection ELSE Put(collection, kInfo, Put(info, kPostmanId, JStr(<<"uuid">>)))
        cleaned == Put(with_id, kItem, JList(clean_request_items(Get(with_id, kItem).el)))
        login_items == get_login_collection_items(login_file)
        login_folder == JDict(<<Pair(kName, JStr(<<"Login">>)), Pair(kItem, login_items)>>)
    IN  IF login_items_true(login_items)
        THEN Put(cleaned, kItem, JList(<<login_folder>> \o Get(cleaned, kItem).el))
        ELSE cleaned

\* items: a request, a request with a _postman_id, and folders of them
PlainRequest(name) == JDict(<<Pair(kName, JStr(<<name>>))>>)
IdRequest(name) == JDict(<<Pair(kName, JStr(<<name>>)), Pair(kPostmanId, JStr(<<"id">>))>>)
ItemFolder(name, items) == JDict(<<Pair(kName, JStr(<<name>>)), Pair(kItem, JList(items))>>)
IdFolder(name, items) == JDict(<<Pair(kName, JStr(<<name>>)), Pair(kPostmanId, JStr(<<"id">>)), Pair(kItem, JList(items))>>)

ItemShapes(name) == { PlainRequest(name), IdRequest(name), ItemFolder(name, <<IdRequest(name)>>), IdFolder(name, <<ItemFolder(name, <<IdRequest(name)>>)>>) }

BuiltItemLists == UNION {[1..n -> ItemShapes("Pets")] : n \in 0..MaxItems}

LoginDocument(items) == JDict(<<Pair(kInfo, JDict(<<Pair(kName, JStr(<<"Login">>))>>)), Pair(kItem, JList(items))>>)

LoginFiles == {NoLoginFile, UnreadableLoginFile} \cup {LoginDocument(items) : items \in {<<>>} \cup {<<shape>> : shape \in ItemShapes("Token")}}

BuiltCollection(items) == JDict(<<Pair(kInfo, JDict(<<Pair(kName, JStr(<<"Pets">>))>>)), Pair(kItem, JList(items))>>)

DocumentInit ==
    /\ args \in [collection : {BuiltCollection(items) : items \in BuiltItemLists}, login_file : LoginFiles]
    /\ ret = NoValue
    /\ cpc = "start"
    /\ EarlyIdle
    /\ RestIdle

WriteCollection ==
    /\ cpc = "start"
    /\ ret' = written_collection(args.collection, args.login_file)
    /\ cpc' = "done"
    /\ UNCHANGED <<args, earlyVars, restVars>>

DocumentNext == WriteCollection

SpecDocument == DocumentInit /\ [][DocumentNext]_vars

\* some item of the list, at any depth, has the key "_postman_id"
RECURSIVE CarriesPostmanId(_)
CarriesPostmanId(items) ==
    \E i \in DOMAIN items :
        \/ Has(items[i], kPostmanId)
        \/ Has(items[i], kItem) /\ Get(items[i], kItem).t = "list" /\ CarriesPostmanId(Get(items[i], kItem).el)

\* C30: in the written collection document no item at any depth carries a
\* _postman_id (only info does), for every state of the stored login
\* collection, whose items are prepended as the folder "Login".
C30_NoItemCarriesPostmanId == cpc = "done" => (Has(Get(ret, kInfo), kPostmanId) /\ ~CarriesPostmanId(Get(ret, kItem).el))

\* when no stored login item carries a _postman_id, no item of the written
\* document does
NoPostmanIdButFromLogin == (cpc = "done" /\ (get_login_collection_items(args.login_file) = NoValue \/ ~CarriesPostmanId(get_login_collection_items(args.login_file).el))) => (Has(Get(ret, kInfo), kPostmanId) /\ ~CarriesPostmanId(Get(ret, kItem).el))

\* the items that convert built are without _postman_id in the written
\* document, whatever the login collection holds
BuiltItemsAreCleaned == cpc = "done" => ~CarriesPostmanId(SelectSeq(Get(ret, kItem).el, LAMBDA item : Get(item, kName) # JStr(<<"Login">>)))

=============================================================================
